---- MODULE Spec2Model ----
(***************************************************************************)
(* Signal arbitration pipeline of v10-stock-sentinel:                      *)
(*   core/decision_core.py          DecisionCore (priority arbitration)    *)
(*   core/risk_control_enhanced.py  GlobalRiskState (kill switch)          *)
(*   core/factor_engine_v9.py       regime and factor weights              *)
(*   core/backtest.py, main.py      the evaluations that build a verdict   *)
(*                                                                         *)
(* Numbers.  Confidences are tenths (0.6 is 6).  Tally scores are kept in  *)
(* units of 1/600 (priority weights 1/(p+1), p in 0..4, times tenths), so  *)
(* the tally is exact.  Factor weights are hundredths, regime multipliers  *)
(* tenths, and normalised weights parts per million.                       *)
(***************************************************************************)
EXTENDS Integers, Sequences, FiniteSets, TLC

VARIABLES
    judgments,            \* DecisionCore.judgments
    veto_active,          \* DecisionCore.veto_active
    veto_reasons,         \* DecisionCore.veto_reasons
    kill_switch_active,   \* GlobalRiskState.kill_switch_active
    kill_reason,          \* GlobalRiskState.kill_reason
    kill_timestamp,       \* GlobalRiskState.kill_timestamp ("None" or "set")
    consecutive_losses,   \* GlobalRiskState.consecutive_losses
    account_drawdown,     \* GlobalRiskState.account_drawdown, <<num, den>>
    CURRENT_REGIME,       \* factor_engine_v9.CURRENT_REGIME
    BASE_WEIGHTS,         \* factor_engine_v9.BASE_WEIGHTS (module-level dict)
    call,                 \* the last completed call: its name, arguments, result
    pc,                   \* concurrent handlers: position of each handler
    local,                \* concurrent handlers: operation and locals of each
    held                  \* the FinalVerdict object a caller keeps (SpecHeld)

dcVars   == <<judgments, veto_active, veto_reasons>>
riskVars == <<kill_switch_active, kill_reason, kill_timestamp,
              consecutive_losses, account_drawdown>>
wVars    == <<CURRENT_REGIME, BASE_WEIGHTS>>
thVars   == <<pc, local>>
vars     == <<dcVars, riskVars, wVars, call, thVars, held>>

(***************************************************************************)
(* Priority and Signal enums                                               *)
(***************************************************************************)
P0_ACCOUNT_RISK   == 0
P1_MARKET_EXTREME == 1
P2_REALTIME_FUND  == 2
P3_TREND_CHIP     == 3
P4_AI_NARRATIVE   == 4
Priority == {P0_ACCOUNT_RISK, P1_MARKET_EXTREME, P2_REALTIME_FUND,
             P3_TREND_CHIP, P4_AI_NARRATIVE}

Signal == {"strong_buy", "buy", "hold", "reduce", "sell", "strong_sell", "veto"}

\* signal in [Signal.SELL, Signal.STRONG_SELL, Signal.VETO]
VetoSignals == {"sell", "strong_sell", "veto"}
\* priority in [P0_ACCOUNT_RISK, P1_MARKET_EXTREME, P2_REALTIME_FUND]
VetoPriorities == {P0_ACCOUNT_RISK, P1_MARKET_EXTREME, P2_REALTIME_FUND}
BuySignals  == {"strong_buy", "buy"}
SellSignals == {"strong_sell", "sell"}

\* VETO_CONDITIONS
main_outflow_threshold == -2000
buy_sell_ratio_min     == 50            \* 0.5, in hundredths
fund_trend_veto        == {"large_outflow", "huge_outflow", "sustained_outflow"}
market_extreme_sell    == {"extreme_panic", "circuit_breaker_risk", "systemic_risk"}
max_drawdown           == 15            \* 0.15, in hundredths
consecutive_loss_max   == 3

\* FORBIDDEN_COMBOS
FORBIDDEN_COMBOS == << <<"blind_buy", "main_distribution">>, <<"main_rally", "fund_exit">>,
                       <<"strong", "large_outflow">>, <<"buy_in", "extreme_risk">> >>

\* filter_narrative: forbidden_words, in the order they are replaced
forbidden_words == <<"blind_buy", "main_rally", "strong_surge", "breakout", "bottom_fishing",
                     "golden_pit", "iron_bottom">>
warning_prefix  == "risk_banner"

(***************************************************************************)
(* DecisionCore as a value: [judgments, veto_active, veto_reasons]         *)
(***************************************************************************)
NewCore == [judgments |-> <<>>, veto_active |-> FALSE, veto_reasons |-> <<>>]

JudgmentInput(priority, signal, reason, confidence, source) ==
    [priority |-> priority, signal |-> signal, reason |-> reason,
     confidence |-> confidence, source |-> source]

\* priority.name
PriorityName(priority) ==
    CASE priority = 0 -> "P0_ACCOUNT_RISK"
      [] priority = 1 -> "P1_MARKET_EXTREME"
      [] priority = 2 -> "P2_REALTIME_FUND"
      [] priority = 3 -> "P3_TREND_CHIP"
      [] priority = 4 -> "P4_AI_NARRATIVE"

\* add_judgment with P2_REALTIME_FUND left out of the vetoing priorities
TriggersVeto_NoP2(priority, signal) ==
    priority \in {P0_ACCOUNT_RISK, P1_MARKET_EXTREME} /\ signal \in VetoSignals

\* the priority/signal test of add_judgment
TriggersVeto(priority, signal) ==
    priority \in VetoPriorities /\ signal \in VetoSignals

\* DecisionCore.add_judgment
AddJudgment(core, priority, signal, reason, confidence, source) ==
    LET j == JudgmentInput(priority, signal, reason, confidence, source)
        veto == TriggersVeto(priority, signal)
    IN [judgments    |-> Append(core.judgments, j),
        veto_active  |-> IF veto THEN TRUE ELSE core.veto_active,
        veto_reasons |-> IF veto
                         THEN Append(core.veto_reasons, <<PriorityName(priority), reason>>)
                         ELSE core.veto_reasons]

\* DecisionCore.check_veto_conditions: the reasons list it builds,
\* each reason a pair <<condition, detail>>.
\* a is [main_net_flow, buy_sell_ratio, fund_trend, market_sentiment,
\*       account_drawdown, consecutive_losses]
VetoConditionReasons(a) ==
       (IF a.account_drawdown >= max_drawdown THEN << <<"account_drawdown", "">> >> ELSE <<>>)
    \o (IF a.consecutive_losses >= consecutive_loss_max 
        THEN << <<"consecutive_losses", "">> >> ELSE <<>>)
    \o (IF a.market_sentiment \in market_extreme_sell
        THEN << <<"market_sentiment", a.market_sentiment>> >> ELSE <<>>)
    \o (IF a.main_net_flow < main_outflow_threshold 
        THEN << <<"main_net_outflow", "">> >> ELSE <<>>)
    \o (IF a.buy_sell_ratio < buy_sell_ratio_min 
        THEN << <<"buy_sell_ratio_low", "">> >> ELSE <<>>)
    \o (IF a.fund_trend \in fund_trend_veto
        THEN << <<"fund_trend", a.fund_trend>> >> ELSE <<>>)

\* check_veto_conditions written as `self.veto_active = veto`
CheckVetoConditions_Assign(core, a) ==
    LET reasons == VetoConditionReasons(a)
    IN [core EXCEPT !.veto_active = (reasons # <<>>),
                    !.veto_reasons = core.veto_reasons \o reasons]

\* DecisionCore.check_veto_conditions: the core after the call
CheckVetoConditions(core, a) ==
    LET reasons == VetoConditionReasons(a)
    IN IF reasons # <<>>
       THEN [core EXCEPT !.veto_active = TRUE,
                         !.veto_reasons = core.veto_reasons \o reasons]
       ELSE core

\* the judgments in the order they were added, unsorted
SortedJudgments_AsAdded(js) == js

\* sorted(self.judgments, key=lambda x: x.priority.value): a stable sort
SortedJudgments(js) ==
       SelectSeq(js, LAMBDA j : j.priority = 0)
    \o SelectSeq(js, LAMBDA j : j.priority = 1)
    \o SelectSeq(js, LAMBDA j : j.priority = 2)
    \o SelectSeq(js, LAMBDA j : j.priority = 3)
    \o SelectSeq(js, LAMBDA j : j.priority = 4)

\* next(j for j in sorted_judgments if j.signal in [SELL, STRONG_SELL, VETO], None):
\* a sequence holding the judgment found, empty for None
VetoSignalOf(sorted) ==
    LET hits == SelectSeq(sorted, LAMBDA j : j.signal \in VetoSignals)
    IN IF hits = <<>> THEN <<>> ELSE <<Head(hits)>>

\* weight = 1.0 / (priority.value + 1), in units of 1/60
Weight(priority) == 60 \div (priority + 1)

RECURSIVE TallyScore(_, _)
\* sum of weight * confidence over the judgments whose signal is in sigs (1/600)
TallyScore(js, sigs) ==
    IF js = <<>> THEN 0
    ELSE (IF Head(js).signal \in sigs
          THEN Weight(Head(js).priority) * Head(js).confidence ELSE 0)
         + TallyScore(Tail(js), sigs)

TallyCount(js, sigs) == Len(SelectSeq(js, LAMBDA j : j.signal \in sigs))

Min(a, b) == IF a <= b THEN a ELSE b

min_buy_signals == 2
buy_threshold   == 300      \* 0.5 in units of 1/600
sell_threshold  == 180      \* 0.3 in units of 1/600
ScoreOne        == 600      \* 1.0 in units of 1/600

\* A verdict's primary_reason is a pair <<reason, n>>: n > 0 stands for the
\* suffix "(n signals confirm)" of the go branch.

\* the branch of make_verdict taken when the veto flag is set
VetoedVerdict(core, sorted) ==
    LET veto_signal == VetoSignalOf(sorted)
    IN IF veto_signal # <<>> /\ veto_signal[1].signal = "strong_sell"
       THEN [action |-> "no_buy", action_class |-> "run", confidence |-> 540,
             primary_reason |-> <<veto_signal[1].reason, 0>>,
             veto_reasons |-> core.veto_reasons, all_inputs |-> sorted,
             is_vetoed |-> TRUE]
       ELSE [action |-> "mostly_watch", action_class |-> "watch", confidence |-> 420,
             primary_reason |-> <<"veto_factor_present", 0>>,
             veto_reasons |-> core.veto_reasons, all_inputs |-> sorted,
             is_vetoed |-> TRUE]

\* the tally with the thresholds make_verdict had before (margin 0.3, one
\* buy signal enough)
TallyVerdict_OldThreshold(sorted) ==
    LET buy_score    == TallyScore(sorted, BuySignals)
        sell_score   == TallyScore(sorted, SellSignals)
        sell_signals == TallyCount(sorted, SellSignals)
    IN IF buy_score > sell_score + sell_threshold
       THEN [action |-> "may_follow", action_class |-> "go",
             confidence |-> Min(buy_score, ScoreOne),
             primary_reason |-> <<sorted[1].reason, TallyCount(sorted, BuySignals)>>,
             veto_reasons |-> <<>>, all_inputs |-> sorted, is_vetoed |-> FALSE]
       ELSE IF sell_score > buy_score + sell_threshold \/ sell_signals >= 2
       THEN [action |-> "cautious_watch", action_class |-> "watch",
             confidence |-> Min(sell_score, ScoreOne),
             primary_reason |-> <<sorted[1].reason, 0>>,
             veto_reasons |-> <<>>, all_inputs |-> sorted, is_vetoed |-> FALSE]
       ELSE [action |-> "balanced", action_class |-> "watch", confidence |-> 300,
             primary_reason |-> <<"insufficient_or_mixed", 0>>,
             veto_reasons |-> <<>>, all_inputs |-> sorted, is_vetoed |-> FALSE]

\* the branch of make_verdict taken when the veto flag is not set
TallyVerdict(sorted) ==
    LET buy_score    == TallyScore(sorted, BuySignals)
        sell_score   == TallyScore(sorted, SellSignals)
        buy_signals  == TallyCount(sorted, BuySignals)
        sell_signals == TallyCount(sorted, SellSignals)
    IN IF buy_score > sell_score + buy_threshold /\ buy_signals >= min_buy_signals
       THEN [action |-> "may_follow", action_class |-> "go",
             confidence |-> Min(buy_score, ScoreOne),
             primary_reason |-> <<sorted[1].reason, buy_signals>>,
             veto_reasons |-> <<>>, all_inputs |-> sorted, is_vetoed |-> FALSE]
       ELSE IF sell_score > buy_score + sell_threshold \/ sell_signals >= 2
       THEN [action |-> "cautious_watch", action_class |-> "watch",
             confidence |-> Min(sell_score, ScoreOne),
             primary_reason |-> <<sorted[1].reason, 0>>,
             veto_reasons |-> <<>>, all_inputs |-> sorted, is_vetoed |-> FALSE]
       ELSE [action |-> "balanced", action_class |-> "watch", confidence |-> 300,
             primary_reason |-> <<"insufficient_or_mixed", 0>>,
             veto_reasons |-> <<>>, all_inputs |-> sorted, is_vetoed |-> FALSE]

\* DecisionCore.make_verdict, every field of the verdict but its timestamp
UntimedVerdict(core) ==
    IF core.judgments = <<>>
    THEN [action |-> "watch_only", action_class |-> "watch", confidence |-> 300,
          primary_reason |-> <<"no_valid_signal", 0>>, veto_reasons |-> <<>>,
          all_inputs |-> <<>>, is_vetoed |-> FALSE]
    ELSE LET sorted == SortedJudgments(core.judgments)
         IN IF core.veto_active THEN VetoedVerdict(core, sorted)
            ELSE TallyVerdict(sorted)

\* the readings datetime.now() can give; the wall clock may repeat a reading
Times == {1, 2}

\* FinalVerdict(..., timestamp=datetime.now(), ...)
Stamp(v, now) ==
    [action |-> v.action, action_class |-> v.action_class,
     confidence |-> v.confidence, primary_reason |-> v.primary_reason,
     veto_reasons |-> v.veto_reasons, all_inputs |-> v.all_inputs,
     timestamp |-> now, is_vetoed |-> v.is_vetoed]

\* DecisionCore.make_verdict when datetime.now() reads now
MakeVerdict(core, now) == Stamp(UntimedVerdict(core), now)

\* make_verdict emptying the judgments it has rendered
AfterMakeVerdict_Consume(core) == [core EXCEPT !.judgments = <<>>]

\* the DecisionCore after make_verdict: no attribute is assigned
AfterMakeVerdict(core) == core

(***************************************************************************)
(* Texts.  A text is a sequence of tokens <<kind, word>>: kind "w" is a    *)
(* word of the text, "filtered" the marker "[filtered:word]" that          *)
(* filter_narrative writes, "banner" the warning prefix.                   *)
(***************************************************************************)
W(word) == <<"w", word>>

SeqToSet(q) == {q[i] : i \in DOMAIN q}

\* Python's `word in text` on one token: substring containment.  The word
\* "strong" is a substring of "strong_surge"; a marker still holds its word.
Occurs(word, token) ==
    \/ token[2] = word
    \/ word = "strong" /\ token[2] = "strong_surge"

WordIn(word, text) == \E i \in DOMAIN text : Occurs(word, text[i])

\* filter_narrative replacing the first forbidden word of the text only
FilterNarrative_FirstOnly(core, narrative) ==
    IF ~core.veto_active THEN narrative
    ELSE << <<"banner", warning_prefix>> >> \o
         [i \in DOMAIN narrative |->
             IF /\ narrative[i][1] = "w"
                /\ narrative[i][2] \in SeqToSet(forbidden_words)
                /\ \A j \in 1..(i - 1) : narrative[j][2] \notin SeqToSet(forbidden_words)
             THEN <<"filtered", narrative[i][2]>> ELSE narrative[i]]

\* DecisionCore.filter_narrative
FilterNarrative(core, narrative) ==
    IF ~core.veto_active THEN narrative
    ELSE << <<"banner", warning_prefix>> >> \o
         [i \in DOMAIN narrative |->
             IF narrative[i][1] = "w" /\ narrative[i][2] \in SeqToSet(forbidden_words)
             THEN <<"filtered", narrative[i][2]>> ELSE narrative[i]]

RECURSIVE Join(_)
\* " ".join(texts)
Join(texts) == IF texts = <<>> THEN <<>> ELSE Head(texts) \o Join(Tail(texts))

\* DecisionCore.check_contradiction: <<found, <<word1, word2>>>>
CheckContradiction(texts) ==
    LET combined == Join(texts)
        hits == SelectSeq(FORBIDDEN_COMBOS,
                          LAMBDA c : WordIn(c[1], combined) /\ WordIn(c[2], combined))
    IN IF hits # <<>> THEN <<TRUE, Head(hits)>> ELSE <<FALSE, <<"", "">> >>

\* DecisionCore.generate_unified_conclusion
GenerateUnifiedConclusion(core, trend_text, fund_text, risk_text, ai_text) ==
    LET verdict == UntimedVerdict(core)        \* the timestamp is not read
        contra  == CheckContradiction(<<trend_text, fund_text, risk_text, ai_text>>)
    IN IF contra[1]
       THEN IF verdict.is_vetoed
            THEN [head |-> "final_verdict", action |-> verdict.action,
                  reason |-> verdict.primary_reason, veto_summary |-> <<>>,
                  contradiction |-> contra[2]]
            ELSE [head |-> "ruling", action |-> verdict.action,
                  reason |-> verdict.primary_reason, veto_summary |-> <<>>,
                  contradiction |-> <<"", "">>]
       ELSE IF verdict.is_vetoed
            THEN [head |-> "final_verdict", action |-> verdict.action,
                  reason |-> <<"", 0>>,
                  veto_summary |-> SubSeq(verdict.veto_reasons, 1,
                                          Min(2, Len(verdict.veto_reasons))),
                  contradiction |-> <<"", "">>]
            ELSE [head |-> "overall", action |-> verdict.action,
                  reason |-> verdict.primary_reason, veto_summary |-> <<>>,
                  contradiction |-> <<"", "">>]

(***************************************************************************)
(* GlobalRiskState as a value.  kill_reason is a pair <<kind, n>>          *)
(* (<<"", 0>> is the empty string); account_drawdown is the fraction       *)
(* <<peak - current, peak>>.                                               *)
(***************************************************************************)
NewRisk ==
    [kill_switch_active |-> FALSE, kill_reason |-> <<"", 0>>,
     kill_timestamp |-> "None", consecutive_losses |-> 0,
     account_drawdown |-> <<0, 1>>]

\* GlobalRiskState.activate_kill_switch
ActivateKillSwitch(r, reason) ==
    [r EXCEPT !.kill_switch_active = TRUE, !.kill_reason = reason,
              !.kill_timestamp = "set"]

\* deactivate_kill_switch clearing the loss counter as well
DeactivateKillSwitch_ResetLosses(r) ==
    [r EXCEPT !.kill_switch_active = FALSE, !.kill_reason = <<"", 0>>,
              !.kill_timestamp = "None", !.consecutive_losses = 0]

\* GlobalRiskState.deactivate_kill_switch
DeactivateKillSwitch(r) ==
    [r EXCEPT !.kill_switch_active = FALSE, !.kill_reason = <<"", 0>>,
              !.kill_timestamp = "None"]

\* GlobalRiskState.is_trading_allowed: <<allowed, <<text, kill_reason>>>>
IsTradingAllowed(r) ==
    IF r.kill_switch_active
    THEN <<FALSE, <<"kill_switch_active", r.kill_reason[1], r.kill_reason[2]>> >>
    ELSE <<TRUE, <<"normal", "", 0>> >>

loss_trigger     == 2       \* consecutive_losses >= 2
drawdown_trigger == 10      \* account_drawdown >= 0.10, in hundredths

\* record_trade_result with a win lifting the kill switch
RecordTradeResult_AutoReset(r, is_win) ==
    IF is_win
    THEN DeactivateKillSwitch([r EXCEPT !.consecutive_losses = 0])
    ELSE LET n == r.consecutive_losses + 1
             r1 == [r EXCEPT !.consecutive_losses = n]
         IN IF n >= loss_trigger
            THEN ActivateKillSwitch(r1, <<"consecutive_losses", n>>) ELSE r1

\* GlobalRiskState.record_trade_result (pnl_pct is not used by the code)
RecordTradeResult(r, is_win) ==
    IF is_win
    THEN [r EXCEPT !.consecutive_losses = 0]
    ELSE LET n == r.consecutive_losses + 1
             r1 == [r EXCEPT !.consecutive_losses = n]
         IN IF n >= loss_trigger
            THEN ActivateKillSwitch(r1, <<"consecutive_losses", n>>) ELSE r1

\* account_drawdown >= threshold (hundredths), on the fraction <<num, den>>, den > 0
DrawdownAtLeast(dd, hundredths) == dd[1] * 100 >= hundredths * dd[2]

\* the drawdown as the kill reason prints it (tenths of a percent, truncated)
DrawdownPermille(dd) ==
    IF dd[1] >= 0 THEN (dd[1] * 1000) \div dd[2] ELSE -((-dd[1] * 1000) \div dd[2])

\* update_drawdown with the threshold it had before (15%)
UpdateDrawdown_Old15(r, current_value, peak_value) ==
    IF peak_value > 0
    THEN LET dd == <<peak_value - current_value, peak_value>>
             r1 == [r EXCEPT !.account_drawdown = dd]
         IN IF DrawdownAtLeast(dd, 15)
            THEN ActivateKillSwitch(r1, <<"account_drawdown", DrawdownPermille(dd)>>)
            ELSE r1
    ELSE r

\* GlobalRiskState.update_drawdown
UpdateDrawdown(r, current_value, peak_value) ==
    IF peak_value > 0
    THEN LET dd == <<peak_value - current_value, peak_value>>
             r1 == [r EXCEPT !.account_drawdown = dd]
         IN IF DrawdownAtLeast(dd, drawdown_trigger)
            THEN ActivateKillSwitch(r1, <<"account_drawdown", DrawdownPermille(dd)>>)
            ELSE r1
    ELSE r

(***************************************************************************)
(* Regime and factor weights.  Weights are thousandths, multipliers        *)
(* tenths, normalised weights parts per million (truncated).               *)
(***************************************************************************)
MarketRegime == {"bull", "bear", "shock"}

FactorKeys == {"trend", "volume", "position", "chip", "money", "market"}
KeyOrder   == <<"trend", "volume", "position", "chip", "money", "market">>

\* BASE_WEIGHTS
BaseWeights ==
    [trend |-> 180, volume |-> 150, position |-> 100, chip |-> 170,
     money |-> 250, market |-> 150]

\* REGIME_ADJUSTMENTS.get(regime, {}): the multipliers a regime names
RegimeAdjustments(regime) ==
    CASE regime = "bull"  -> [trend |-> 13, chip |-> 8, position |-> 7, money |-> 12]
      [] regime = "bear"  -> [money |-> 15, chip |-> 12, position |-> 13, trend |-> 6]
      [] regime = "shock" -> [volume |-> 12, chip |-> 11, money |-> 13]
      [] OTHER            -> <<>>

RECURSIVE SumOver(_, _)
\* sum(weights.values()), the keys taken in the order q
SumOver(w, q) == IF q = <<>> THEN 0 ELSE w[Head(q)] + SumOver(w, Tail(q))

SumWeights(w) == SumOver(w, SelectSeq(KeyOrder, LAMBDA k : k \in DOMAIN w))

\* weights[key] *= mult for the keys the regime adjusts
ApplyAdjustments(weights, regime) ==
    LET adjustments == RegimeAdjustments(regime)
    IN [k \in DOMAIN weights |->
           IF k \in DOMAIN adjustments
           THEN (weights[k] * adjustments[k]) \div 10 ELSE weights[k]]

PPM == 1000000

\* get_adjusted_weights dividing by the sum of the base weights
Normalise_BaseTotal(weights, base) ==
    [k \in DOMAIN weights |-> (weights[k] * PPM) \div SumWeights(base)]

\* total = sum(weights.values()); {k: v/total for k, v in weights.items()}
Normalise(weights, base) ==
    [k \in DOMAIN weights |-> (weights[k] * PPM) \div SumWeights(weights)]

\* get_adjusted_weights: [base |-> BASE_WEIGHTS after the call, weights |-> result]
GetAdjustedWeights(base, regime) ==
    LET weights == ApplyAdjustments(base, regime)      \* on BASE_WEIGHTS.copy()
    IN [base |-> base, weights |-> Normalise(weights, base)]

\* set_market_regime: regime_map.get(regime, MarketRegime.SHOCK)
RegimeMap(regime) == IF regime \in MarketRegime THEN regime ELSE "shock"

(***************************************************************************)
(* Initial values of the state a specification does not exercise           *)
(***************************************************************************)
RiskInit ==
    /\ kill_switch_active = FALSE
    /\ kill_reason = <<"", 0>>
    /\ kill_timestamp = "None"
    /\ consecutive_losses = 0
    /\ account_drawdown = <<0, 1>>

WeightsInit ==
    /\ CURRENT_REGIME = "shock"
    /\ BASE_WEIGHTS = BaseWeights

ThreadsIdle ==
    /\ pc = <<>>
    /\ local = <<>>

(***************************************************************************)
(* One DecisionCore object: its methods as actions on                      *)
(* judgments, veto_active, veto_reasons                                    *)
(***************************************************************************)
MaxJudgments   == 2
MaxVetoReasons == 2

Core == [judgments |-> judgments, veto_active |-> veto_active,
         veto_reasons |-> veto_reasons]

SetCore(core) ==
    /\ judgments' = core.judgments
    /\ veto_active' = core.veto_active
    /\ veto_reasons' = core.veto_reasons

NoCall == [op |-> "none", arg |-> <<>>, ret |-> <<>>]

\* no FinalVerdict is kept by a caller
NoVerdict == [verdict |-> <<>>, returned |-> <<>>, shares |-> FALSE]

\* a DecisionCore method touches nothing but its own object
DCFrame == UNCHANGED <<riskVars, wVars, held, thVars>>

\* the judgments handed to add_judgment
DCInputs ==
    [priority : Priority, signal : Signal, confidence : {10}, reason : {"r"},
     source : {"src"}]

\* the arguments handed to check_veto_conditions: the defaults, and a call
\* that trips two conditions
DefaultVetoArgs ==
    [main_net_flow |-> 0, buy_sell_ratio |-> 100, fund_trend |-> "",
     market_sentiment |-> "", account_drawdown |-> 0, consecutive_losses |-> 0]
DCVetoArgs ==
    { DefaultVetoArgs,
      [DefaultVetoArgs EXCEPT !.market_sentiment = "extreme_panic",
                              !.buy_sell_ratio = 40] }

\* the texts handed to filter_narrative / check_contradiction
DCNarratives ==
    { << W("main_rally"), W("steady"), W("fund_exit") >>,
      << W("breakout"), W("steady"), W("breakout"), W("golden_pit"),
         W("strong_surge"), W("buy_in") >> }

reset ==
    /\ DCFrame
    /\ SetCore(NewCore)
    /\ call' = [op |-> "reset", arg |-> <<>>, ret |-> <<>>]

add_judgment(j) ==
    /\ DCFrame
    /\ SetCore(AddJudgment(Core, j.priority, j.signal, j.reason, j.confidence, j.source))
    /\ call' = [op |-> "add_judgment", arg |-> j, ret |-> <<>>]

check_veto_conditions(a) ==
    /\ DCFrame
    /\ SetCore(CheckVetoConditions(Core, a))
    /\ call' = [op |-> "check_veto_conditions", arg |-> a,
                ret |-> <<VetoConditionReasons(a) # <<>>, VetoConditionReasons(a)>>]

filter_narrative(narrative) ==
    /\ DCFrame
    /\ UNCHANGED dcVars
    /\ call' = [op |-> "filter_narrative", arg |-> narrative,
                ret |-> FilterNarrative(Core, narrative)]

check_contradiction(texts) ==
    /\ DCFrame
    /\ UNCHANGED dcVars
    /\ call' = [op |-> "check_contradiction", arg |-> texts,
                ret |-> CheckContradiction(texts)]

make_verdict(now) ==
    /\ DCFrame
    /\ SetCore(AfterMakeVerdict(Core))
    /\ call' = [op |-> "make_verdict", arg |-> <<>>, ret |-> MakeVerdict(Core, now)]

generate_unified_conclusion(texts) ==
    /\ DCFrame
    /\ UNCHANGED dcVars
    /\ call' = [op |-> "generate_unified_conclusion", arg |-> texts,
                ret |-> GenerateUnifiedConclusion(Core, texts[1], texts[2],
                                                  texts[3], texts[4])]

DCInit ==
    /\ judgments = <<>>
    /\ veto_active = FALSE
    /\ veto_reasons = <<>>

\* DecisionCore.__init__, with everything else at rest
InitDC == DCInit /\ RiskInit /\ WeightsInit /\ ThreadsIdle /\ call = NoCall /\ held = NoVerdict

NextDC ==
    \/ reset
    \/ \E j \in DCInputs :
           Len(judgments) < MaxJudgments /\ add_judgment(j)
    \/ \E a \in DCVetoArgs :
           /\ Len(veto_reasons) + Len(VetoConditionReasons(a)) <= MaxVetoReasons
           /\ check_veto_conditions(a)
    \/ \E n \in DCNarratives : filter_narrative(n)
    \/ \E n \in DCNarratives : check_contradiction(<<n>>)
    \/ \E now \in Times : make_verdict(now)
    \/ \E n \in DCNarratives :
           generate_unified_conclusion(<<n, <<>>, <<>>, <<>> >>)

SpecDC == InitDC /\ [][NextDC]_vars

(***************************************************************************)
(* A FinalVerdict kept by the caller of make_verdict.  held.verdict is the *)
(* object as it is now, held.returned its fields when it was returned,     *)
(* held.shares whether its veto_reasons is the list self.veto_reasons.     *)
(***************************************************************************)
\* FinalVerdict(..., veto_reasons=self.veto_reasons, ...) in the two vetoed
\* returns; veto_reasons=[] in the others
Hold(verdict) ==
    [verdict |-> verdict, returned |-> verdict, shares |-> verdict.is_vetoed]

\* self.veto_reasons.append / .extend changes the list in place, and with
\* it the veto_reasons of a verdict that shares the list
Seen(h, core) ==
    IF h.shares THEN [h EXCEPT !.verdict.veto_reasons = core.veto_reasons] ELSE h

\* self.veto_reasons = [] binds a new list; the verdict keeps the old one
Unshared(h) == [h EXCEPT !.shares = FALSE]

HeldFrame == UNCHANGED <<riskVars, wVars, thVars>>

\* the judgments added while a verdict is kept
HeldInputs ==
    { JudgmentInput(P0_ACCOUNT_RISK, "veto", "r", 10, "src"),
      JudgmentInput(P3_TREND_CHIP, "buy", "r", 10, "src") }

\* verdict = core.make_verdict(), the caller keeping the first one
kept_make_verdict(now) ==
    /\ HeldFrame
    /\ SetCore(AfterMakeVerdict(Core))
    /\ call' = [op |-> "make_verdict", arg |-> <<>>, ret |-> MakeVerdict(Core, now)]
    /\ held' = IF held = NoVerdict THEN Hold(MakeVerdict(Core, now)) ELSE held

kept_add_judgment(j) ==
    /\ HeldFrame
    /\ SetCore(AddJudgment(Core, j.priority, j.signal, j.reason, j.confidence, j.source))
    /\ call' = [op |-> "add_judgment", arg |-> j, ret |-> <<>>]
    /\ held' = Seen(held, AddJudgment(Core, j.priority, j.signal, j.reason,
                                      j.confidence, j.source))

kept_check_veto_conditions(a) ==
    /\ HeldFrame
    /\ SetCore(CheckVetoConditions(Core, a))
    /\ call' = [op |-> "check_veto_conditions", arg |-> a,
                ret |-> <<VetoConditionReasons(a) # <<>>, VetoConditionReasons(a)>>]
    /\ held' = Seen(held, CheckVetoConditions(Core, a))

kept_reset ==
    /\ HeldFrame
    /\ SetCore(NewCore)
    /\ call' = [op |-> "reset", arg |-> <<>>, ret |-> <<>>]
    /\ held' = Unshared(held)

NextHeld ==
    \/ \E now \in Times : kept_make_verdict(now)
    \/ \E j \in HeldInputs :
           Len(judgments) < MaxJudgments /\ kept_add_judgment(j)
    \/ \E a \in DCVetoArgs :
           /\ Len(veto_reasons) + Len(VetoConditionReasons(a)) <= MaxVetoReasons
           /\ kept_check_veto_conditions(a)
    \/ kept_reset

SpecHeld == InitDC /\ [][NextHeld]_vars


(***************************************************************************)
(* The tally of make_verdict on weighted judgments: one DecisionCore fed   *)
(* judgments of several priorities and confidences                         *)
(***************************************************************************)
MaxTally == 4

TJ(priority, signal, confidence) ==
    [priority |-> priority, signal |-> signal, confidence |-> confidence,
     reason |-> "r", source |-> "src"]

TallyInputs ==
    { TJ(P0_ACCOUNT_RISK, "buy", 10),   TJ(P2_REALTIME_FUND, "buy", 7),
      TJ(P3_TREND_CHIP, "buy", 6),      TJ(P3_TREND_CHIP, "strong_buy", 10),
      TJ(P3_TREND_CHIP, "sell", 6),     TJ(P4_AI_NARRATIVE, "strong_sell", 10),
      TJ(P3_TREND_CHIP, "hold", 5),     TJ(P2_REALTIME_FUND, "sell", 8) }

NextTally ==
    \/ reset
    \/ \E j \in TallyInputs : Len(judgments) < MaxTally /\ add_judgment(j)
    \/ \E now \in Times : make_verdict(now)

SpecTally == InitDC /\ [][NextTally]_vars

(***************************************************************************)
(* The evaluations that build a verdict.  Judgment reasons are triples     *)
(* <<text, word, n>>.  Money flows are in units of 10,000 yuan, scores     *)
(* 0..100, change_pct in tenths of a percent, winner rate in percent.      *)
(***************************************************************************)
flow_threshold == 2000      \* main_net_flow beyond +-2000 adds a P2 judgment

\* the P2 (real-time fund) judgment shared by the three evaluations
AddFundJudgment(core, net, sell_confidence, source) ==
    IF net < -flow_threshold
    THEN AddJudgment(core, P2_REALTIME_FUND, "sell",
                     <<"main_net_outflow", "", -net>>, sell_confidence, source)
    ELSE IF net > flow_threshold
    THEN AddJudgment(core, P2_REALTIME_FUND, "buy",
                     <<"main_net_inflow", "", net>>, 7, source)
    ELSE core

\* the P3 (score) judgment: BUY from buy_from up, SELL from 35 down
AddScoreJudgment(core, score, buy_from) ==
    IF score >= buy_from
    THEN AddJudgment(core, P3_TREND_CHIP, "buy", <<"score", "", score>>, 6, "score")
    ELSE IF score <= 35
    THEN AddJudgment(core, P3_TREND_CHIP, "sell", <<"score", "", score>>, 6, "score")
    ELSE core

\* main.py stock_detail, the unified-verdict block: the kill switch is read
\* through is_trading_allowed and surfaces as a P0 VETO judgment
StockDetailCore(r, realtime_net, score) ==
    LET allowed == IsTradingAllowed(r)
        c0 == IF ~allowed[1]
              THEN AddJudgment(NewCore, P0_ACCOUNT_RISK, "veto", allowed[2], 10,
                               "global_risk")
              ELSE NewCore
        c1 == AddFundJudgment(c0, realtime_net, 8, "realtime_fund")
    IN AddScoreJudgment(c1, score, 70)

\* main.py stock_detail: dec_class is the action_class the scoring cascade
\* chose before the unified verdict; a vetoed 'go' is turned into 'watch'
StockDetail(r, dec_class, realtime_net, score) ==
    LET verdict == UntimedVerdict(StockDetailCore(r, realtime_net, score))
    IN [action_class |-> IF verdict.is_vetoed /\ dec_class = "go"
                         THEN "watch" ELSE dec_class,
        verdict |-> verdict]

\* BacktestEngine._generate_unified_signal
GenerateUnifiedSignal(r, score, main_net_flow) ==
    LET c1 == AddFundJudgment(NewCore, main_net_flow, 8, "fund")
        verdict == UntimedVerdict(AddScoreJudgment(c1, score, 70))
    IN [is_buy |-> ~verdict.is_vetoed /\ verdict.action_class = "go",
        verdict |-> verdict]

\* "x" in trend_signal, on the words a trend signal is made of
TrendBullish(trend_signal) == trend_signal \in {"bull_alignment", "golden_cross"}
TrendBearish(trend_signal) == trend_signal \in {"bear_alignment", "death_cross"}

\* decision_core.quick_verdict
QuickVerdict(r, a, now) ==
    LET c0 == CheckVetoConditions(NewCore,
                 [main_net_flow |-> a.main_net_flow,
                  buy_sell_ratio |-> a.buy_sell_ratio,
                  fund_trend |-> a.fund_trend,
                  market_sentiment |-> a.market_sentiment,
                  account_drawdown |-> 0, consecutive_losses |-> 0])
        c1 == AddFundJudgment(c0, a.main_net_flow, 7, "realtime_fund")
        c2 == IF TrendBullish(a.trend_signal)
              THEN AddJudgment(c1, P3_TREND_CHIP, "buy",
                               <<"trend", a.trend_signal, 0>>, 6, "trend")
              ELSE IF TrendBearish(a.trend_signal)
              THEN AddJudgment(c1, P3_TREND_CHIP, "sell",
                               <<"trend", a.trend_signal, 0>>, 6, "trend")
              ELSE c1
    IN [verdict |-> MakeVerdict(AddScoreJudgment(c2, a.score, 75), now)]

\* main.py get_decision: the action_class cascade of /api/decision
GetDecisionClass(change_pct, net_flow, score, win) ==
    IF change_pct >= 98
    THEN (IF net_flow > 1000 THEN "go" ELSE "watch")
    ELSE IF change_pct <= -98
    THEN (IF net_flow > 3000 THEN "fake-drop" ELSE "run")
    ELSE IF change_pct >= 80 THEN "go"
    ELSE IF change_pct >= 50
    THEN (IF score >= 70 THEN "go" ELSE "watch")
    ELSE IF change_pct <= -50
    THEN (IF net_flow > 1000 THEN "fake-drop" ELSE "run")
    ELSE IF win > 90 /\ score < 55
    THEN (IF net_flow > 0 THEN "fake-drop" ELSE "watch")
    ELSE IF win > 60 THEN "watch"
    ELSE IF win < 10
    THEN (IF net_flow > 0 THEN "fake-drop" ELSE "watch")
    ELSE "watch"

\* main.py get_decision
GetDecision(r, a) ==
    [action_class |-> GetDecisionClass(a.change_pct, a.net_flow, a.score, a.win)]

(***************************************************************************)
(* The process: GlobalRiskState and the regime, their mutators, and the    *)
(* evaluations that read them                                              *)
(***************************************************************************)
MaxLosses == 3          \* consecutive_losses is not counted beyond this

Risk ==
    [kill_switch_active |-> kill_switch_active, kill_reason |-> kill_reason,
     kill_timestamp |-> kill_timestamp, consecutive_losses |-> consecutive_losses,
     account_drawdown |-> account_drawdown]

SetRisk(r) ==
    /\ kill_switch_active' = r.kill_switch_active
    /\ kill_reason' = r.kill_reason
    /\ kill_timestamp' = r.kill_timestamp
    /\ consecutive_losses' = r.consecutive_losses
    /\ account_drawdown' = r.account_drawdown

\* the inputs of the process's calls
Values        == {<<100, 100>>, <<91, 100>>, <<90, 100>>, <<110, 100>>, <<50, 0>>}
RegimeInputs  == {"bull", "bear", "shock", "sideways"}
FlowInputs    == {-2500, 0, 2500}
ScoreInputs   == {30, 50, 80}
ClassInputs   == {"go", "watch", "run", "fake-drop"}
QuickInputs   ==
    [main_net_flow : FlowInputs, buy_sell_ratio : {100}, fund_trend : {""},
     market_sentiment : {"", "extreme_panic"}, score : {30, 80},
     trend_signal : {"", "golden_cross"}, chip_signal : {""}]
DecisionInputs ==
    [change_pct : {-100, -60, 0, 60, 85, 100}, net_flow : {-3500, 500, 3500},
     score : {50, 70}, win : {5, 95}]

record_trade_result(is_win) ==
    /\ is_win \/ consecutive_losses < MaxLosses
    /\ SetRisk(RecordTradeResult(Risk, is_win))
    /\ call' = [op |-> "record_trade_result", arg |-> [is_win |-> is_win],
                ret |-> <<>>]
    /\ UNCHANGED <<dcVars, wVars, held, thVars>>

update_drawdown(current_value, peak_value) ==
    /\ SetRisk(UpdateDrawdown(Risk, current_value, peak_value))
    /\ call' = [op |-> "update_drawdown",
                arg |-> [current_value |-> current_value, peak_value |-> peak_value],
                ret |-> <<>>]
    /\ UNCHANGED <<dcVars, wVars, held, thVars>>

activate_kill_switch ==
    /\ SetRisk(ActivateKillSwitch(Risk, <<"manual", 0>>))
    /\ call' = [op |-> "activate_kill_switch", arg |-> <<"manual", 0>>, ret |-> <<>>]
    /\ UNCHANGED <<dcVars, wVars, held, thVars>>

deactivate_kill_switch ==
    /\ SetRisk(DeactivateKillSwitch(Risk))
    /\ call' = [op |-> "deactivate_kill_switch", arg |-> <<>>, ret |-> <<>>]
    /\ UNCHANGED <<dcVars, wVars, held, thVars>>

is_trading_allowed ==
    /\ call' = [op |-> "is_trading_allowed", arg |-> <<>>,
                ret |-> IsTradingAllowed(Risk)]
    /\ UNCHANGED <<dcVars, riskVars, wVars, held, thVars>>

set_market_regime(regime) ==
    /\ CURRENT_REGIME' = RegimeMap(regime)
    /\ call' = [op |-> "set_market_regime", arg |-> regime, ret |-> <<>>]
    /\ UNCHANGED <<dcVars, riskVars, held, BASE_WEIGHTS, thVars>>

get_current_regime ==
    /\ call' = [op |-> "get_current_regime", arg |-> <<>>, ret |-> CURRENT_REGIME]
    /\ UNCHANGED <<dcVars, riskVars, wVars, held, thVars>>

get_adjusted_weights ==
    /\ BASE_WEIGHTS' = GetAdjustedWeights(BASE_WEIGHTS, CURRENT_REGIME).base
    /\ call' = [op |-> "get_adjusted_weights", arg |-> <<>>,
                ret |-> GetAdjustedWeights(BASE_WEIGHTS, CURRENT_REGIME).weights]
    /\ UNCHANGED <<dcVars, riskVars, held, CURRENT_REGIME, thVars>>

\* each evaluation builds its own DecisionCore and leaves the process state alone
stock_detail(dec_class, realtime_net, score) ==
    /\ call' = [op |-> "stock_detail",
                arg |-> [dec_class |-> dec_class, realtime_net |-> realtime_net,
                         score |-> score],
                ret |-> StockDetail(Risk, dec_class, realtime_net, score)]
    /\ UNCHANGED <<dcVars, riskVars, wVars, held, thVars>>

generate_unified_signal(score, main_net_flow) ==
    /\ call' = [op |-> "_generate_unified_signal",
                arg |-> [score |-> score, main_net_flow |-> main_net_flow],
                ret |-> GenerateUnifiedSignal(Risk, score, main_net_flow)]
    /\ UNCHANGED <<dcVars, riskVars, wVars, held, thVars>>

quick_verdict(a, now) ==
    /\ call' = [op |-> "quick_verdict", arg |-> a, ret |-> QuickVerdict(Risk, a, now)]
    /\ UNCHANGED <<dcVars, riskVars, wVars, held, thVars>>

get_decision(a) ==
    /\ call' = [op |-> "get_decision", arg |-> a, ret |-> GetDecision(Risk, a)]
    /\ UNCHANGED <<dcVars, riskVars, wVars, held, thVars>>

Init ==
    DCInit /\ RiskInit /\ WeightsInit /\ ThreadsIdle /\ call = NoCall /\ held = NoVerdict

Next ==
    \/ \E w \in BOOLEAN : record_trade_result(w)
    \/ \E v \in Values : update_drawdown(v[1], v[2])
    \/ activate_kill_switch
    \/ deactivate_kill_switch
    \/ is_trading_allowed
    \/ \E g \in RegimeInputs : set_market_regime(g)
    \/ get_current_regime
    \/ get_adjusted_weights
    \/ \E c \in ClassInputs, f \in FlowInputs, x \in ScoreInputs : stock_detail(c, f, x)
    \/ \E f \in FlowInputs, x \in ScoreInputs : generate_unified_signal(x, f)
    \/ \E a \in QuickInputs, now \in Times : quick_verdict(a, now)
    \/ \E a \in DecisionInputs : get_decision(a)

Spec == Init /\ [][Next]_vars

(***************************************************************************)
(* GlobalRiskState under concurrent callers.  The class takes no lock, so  *)
(* a call is a sequence of attribute loads and stores on the shared        *)
(* singleton, and the calls of different handlers interleave between them. *)
(* pc[h] is the position of handler h, local[h] its call and temporaries.  *)
(***************************************************************************)
Handlers == {"h1", "h2"}

ConcCall(op, is_win, current_value, peak_value) ==
    [op |-> op, is_win |-> is_win, current_value |-> current_value,
     peak_value |-> peak_value]

NoConcCall == ConcCall("none", FALSE, 0, 0)

\* the calls a handler may make
ConcCalls ==
    { ConcCall("record_trade_result", FALSE, 0, 0),
      ConcCall("record_trade_result", TRUE, 0, 0),
      ConcCall("update_drawdown", FALSE, 90, 100),
      ConcCall("update_drawdown", FALSE, 100, 100),
      ConcCall("activate_kill_switch", FALSE, 0, 0),
      ConcCall("deactivate_kill_switch", FALSE, 0, 0) }

\* the call c made on the state r without interruption
ApplyCall(r, c) ==
    CASE c.op = "record_trade_result"    -> RecordTradeResult(r, c.is_win)
      [] c.op = "update_drawdown"        -> UpdateDrawdown(r, c.current_value,
                                                           c.peak_value)
      [] c.op = "activate_kill_switch"   -> ActivateKillSwitch(r, <<"manual", 0>>)
      [] c.op = "deactivate_kill_switch" -> DeactivateKillSwitch(r)
      [] OTHER                           -> r

\* where a call starts
EntryPoint(c) ==
    CASE c.op = "record_trade_result"    -> IF c.is_win THEN "rtr_reset" ELSE "rtr_load"
      [] c.op = "update_drawdown"        -> "ud_enter"
      [] c.op = "activate_kill_switch"   -> "act_active"
      [] c.op = "deactivate_kill_switch" -> "deact_active"
      [] c.op = "is_trading_allowed"     -> "ita_test"
      [] OTHER                           -> "done"

Goto(h, label) == pc' = [pc EXCEPT ![h] = label]

\* a handler enters a GlobalRiskState method
begin(h, c) ==
    /\ pc[h] = "idle"
    /\ Goto(h, EntryPoint(c))
    /\ local' = [local EXCEPT ![h] = [call |-> c, tmp |-> 0,
                                      reason |-> <<"manual", 0>>]]
    /\ UNCHANGED <<dcVars, riskVars, wVars, held, call>>

\* record_trade_result, is_win: self.consecutive_losses = 0
rtr_reset(h) ==
    /\ pc[h] = "rtr_reset"
    /\ consecutive_losses' = 0
    /\ Goto(h, "done")
    /\ UNCHANGED <<dcVars, wVars, held, call, local, kill_switch_active, kill_reason,
                   kill_timestamp, account_drawdown>>

\* self.consecutive_losses += 1, the load
rtr_load(h) ==
    /\ pc[h] = "rtr_load"
    /\ local' = [local EXCEPT ![h].tmp = consecutive_losses]
    /\ Goto(h, "rtr_store")
    /\ UNCHANGED <<dcVars, riskVars, wVars, held, call>>

\* self.consecutive_losses += 1, the store
rtr_store(h) ==
    /\ pc[h] = "rtr_store"
    /\ consecutive_losses' = local[h].tmp + 1
    /\ Goto(h, "rtr_test")
    /\ UNCHANGED <<dcVars, wVars, held, call, local, kill_switch_active, kill_reason,
                   kill_timestamp, account_drawdown>>

\* if self.consecutive_losses >= 2
rtr_test(h) ==
    /\ pc[h] = "rtr_test"
    /\ Goto(h, IF consecutive_losses >= loss_trigger THEN "rtr_reason" ELSE "done")
    /\ UNCHANGED <<dcVars, riskVars, wVars, held, call, local>>

\* the reason string, built from a fresh read of consecutive_losses
rtr_reason(h) ==
    /\ pc[h] = "rtr_reason"
    /\ local' = [local EXCEPT ![h].reason = <<"consecutive_losses", consecutive_losses>>]
    /\ Goto(h, "act_active")
    /\ UNCHANGED <<dcVars, riskVars, wVars, held, call>>

\* update_drawdown: if peak_value > 0, the store to account_drawdown
ud_enter(h) ==
    /\ pc[h] = "ud_enter"
    /\ IF local[h].call.peak_value > 0
       THEN /\ account_drawdown' = <<local[h].call.peak_value
                                       - local[h].call.current_value,
                                     local[h].call.peak_value>>
            /\ Goto(h, "ud_test")
       ELSE /\ UNCHANGED account_drawdown
            /\ Goto(h, "done")
    /\ UNCHANGED <<dcVars, wVars, held, call, local, kill_switch_active, kill_reason,
                   kill_timestamp, consecutive_losses>>

\* if self.account_drawdown >= 0.10
ud_test(h) ==
    /\ pc[h] = "ud_test"
    /\ Goto(h, IF DrawdownAtLeast(account_drawdown, drawdown_trigger)
               THEN "ud_reason" ELSE "done")
    /\ UNCHANGED <<dcVars, riskVars, wVars, held, call, local>>

\* the reason string, built from a fresh read of account_drawdown
ud_reason(h) ==
    /\ pc[h] = "ud_reason"
    /\ local' = [local EXCEPT ![h].reason =
                     <<"account_drawdown", DrawdownPermille(account_drawdown)>>]
    /\ Goto(h, "act_active")
    /\ UNCHANGED <<dcVars, riskVars, wVars, held, call>>

\* activate_kill_switch: self.kill_switch_active = True
act_active(h) ==
    /\ pc[h] = "act_active"
    /\ kill_switch_active' = TRUE
    /\ Goto(h, "act_reason")
    /\ UNCHANGED <<dcVars, wVars, held, call, local, kill_reason, kill_timestamp,
                   consecutive_losses, account_drawdown>>

\* self.kill_reason = reason
act_reason(h) ==
    /\ pc[h] = "act_reason"
    /\ kill_reason' = local[h].reason
    /\ Goto(h, "act_timestamp")
    /\ UNCHANGED <<dcVars, wVars, held, call, local, kill_switch_active, kill_timestamp,
                   consecutive_losses, account_drawdown>>

\* self.kill_timestamp = datetime.now()
act_timestamp(h) ==
    /\ pc[h] = "act_timestamp"
    /\ kill_timestamp' = "set"
    /\ Goto(h, "done")
    /\ UNCHANGED <<dcVars, wVars, held, call, local, kill_switch_active, kill_reason,
                   consecutive_losses, account_drawdown>>

\* deactivate_kill_switch: self.kill_switch_active = False
deact_active(h) ==
    /\ pc[h] = "deact_active"
    /\ kill_switch_active' = FALSE
    /\ Goto(h, "deact_reason")
    /\ UNCHANGED <<dcVars, wVars, held, call, local, kill_reason, kill_timestamp,
                   consecutive_losses, account_drawdown>>

\* self.kill_reason = ""
deact_reason(h) ==
    /\ pc[h] = "deact_reason"
    /\ kill_reason' = <<"", 0>>
    /\ Goto(h, "deact_timestamp")
    /\ UNCHANGED <<dcVars, wVars, held, call, local, kill_switch_active, kill_timestamp,
                   consecutive_losses, account_drawdown>>

\* self.kill_timestamp = None
deact_timestamp(h) ==
    /\ pc[h] = "deact_timestamp"
    /\ kill_timestamp' = "None"
    /\ Goto(h, "done")
    /\ UNCHANGED <<dcVars, wVars, held, call, local, kill_switch_active, kill_reason,
                   consecutive_losses, account_drawdown>>

InitConc ==
    /\ DCInit /\ RiskInit /\ WeightsInit /\ call = NoCall /\ held = NoVerdict
    /\ pc = [h \in Handlers |-> "idle"]
    /\ local = [h \in Handlers |->
                   [call |-> NoConcCall, tmp |-> 0, reason |-> <<"manual", 0>>]]

NextConc ==
    \/ \E h \in Handlers, c \in ConcCalls : begin(h, c)
    \/ \E h \in Handlers : rtr_reset(h)
    \/ \E h \in Handlers : rtr_load(h)
    \/ \E h \in Handlers : rtr_store(h)
    \/ \E h \in Handlers : rtr_test(h)
    \/ \E h \in Handlers : rtr_reason(h)
    \/ \E h \in Handlers : ud_enter(h)
    \/ \E h \in Handlers : ud_test(h)
    \/ \E h \in Handlers : ud_reason(h)
    \/ \E h \in Handlers : act_active(h)
    \/ \E h \in Handlers : act_reason(h)
    \/ \E h \in Handlers : act_timestamp(h)
    \/ \E h \in Handlers : deact_active(h)
    \/ \E h \in Handlers : deact_reason(h)
    \/ \E h \in Handlers : deact_timestamp(h)

SpecConc == InitConc /\ [][NextConc]_vars

(***************************************************************************)
(* is_trading_allowed beside the mutators: two attribute loads, of         *)
(* kill_switch_active and then of kill_reason, with no lock around them.   *)
(* The value it returns is left in call.                                   *)
(***************************************************************************)
ReadCalls == ConcCalls \cup { ConcCall("is_trading_allowed", FALSE, 0, 0) }

\* if self.kill_switch_active; when it is off: return True, "normal"
ita_test(h) ==
    /\ pc[h] = "ita_test"
    /\ IF kill_switch_active
       THEN /\ Goto(h, "ita_reason")
            /\ UNCHANGED call
       ELSE /\ Goto(h, "done")
            /\ call' = [op |-> "is_trading_allowed", arg |-> <<>>,
                        ret |-> <<TRUE, <<"normal", "", 0>> >>]
    /\ UNCHANGED <<dcVars, riskVars, wVars, held, local>>

\* return False, f"...{self.kill_reason}": the load of kill_reason
ita_reason(h) ==
    /\ pc[h] = "ita_reason"
    /\ call' = [op |-> "is_trading_allowed", arg |-> <<>>,
                ret |-> <<FALSE, <<"kill_switch_active", kill_reason[1],
                                   kill_reason[2]>> >>]
    /\ Goto(h, "done")
    /\ UNCHANGED <<dcVars, riskVars, wVars, held, local>>

\* the handlers start on a fresh GlobalRiskState or on one whose switch an
\* earlier activate_kill_switch call has turned on
InitRead ==
    /\ DCInit /\ WeightsInit /\ call = NoCall /\ held = NoVerdict
    /\ \E r \in {NewRisk, ActivateKillSwitch(NewRisk, <<"manual", 0>>)} :
           /\ kill_switch_active = r.kill_switch_active
           /\ kill_reason = r.kill_reason
           /\ kill_timestamp = r.kill_timestamp
           /\ consecutive_losses = r.consecutive_losses
           /\ account_drawdown = r.account_drawdown
    /\ pc = [h \in Handlers |-> "idle"]
    /\ local = [h \in Handlers |->
                   [call |-> NoConcCall, tmp |-> 0, reason |-> <<"manual", 0>>]]

NextRead ==
    \/ \E h \in Handlers, c \in ReadCalls : begin(h, c)
    \/ \E h \in Handlers : ita_test(h)
    \/ \E h \in Handlers : ita_reason(h)
    \/ \E h \in Handlers : rtr_reset(h)
    \/ \E h \in Handlers : rtr_load(h)
    \/ \E h \in Handlers : rtr_store(h)
    \/ \E h \in Handlers : rtr_test(h)
    \/ \E h \in Handlers : rtr_reason(h)
    \/ \E h \in Handlers : ud_enter(h)
    \/ \E h \in Handlers : ud_test(h)
    \/ \E h \in Handlers : ud_reason(h)
    \/ \E h \in Handlers : act_active(h)
    \/ \E h \in Handlers : act_reason(h)
    \/ \E h \in Handlers : act_timestamp(h)
    \/ \E h \in Handlers : deact_active(h)
    \/ \E h \in Handlers : deact_reason(h)
    \/ \E h \in Handlers : deact_timestamp(h)

SpecRead == InitRead /\ [][NextRead]_vars

(***************************************************************************)
(* Factor fusion (factor_engine_v9).  Scores are points; inside            *)
(* calculate_v9_score they are hundredths of a point and the returned      *)
(* score is in tenths.  pct_chg is in tenths of a percent, prices and      *)
(* costs in cents, flows in units of 10,000 yuan.                          *)
(***************************************************************************)
\* Python's `word in msg` on the labels the engine produces: "bait" (youduo)
\* is a substring of "severe_bait", "pit" (wakeng) of "clear_pit"
Contains(word, msg) ==
    \/ msg = word
    \/ word = "bait" /\ msg = "severe_bait"
    \/ word = "pit" /\ msg = "clear_pit"

\* calc_fund_divergence: money_flow is the sequence of main_net_inflow values
CalcFundDivergence(money_flow, pct_chg) ==
    IF money_flow = <<>> THEN <<50, "normal">>
    ELSE LET net  == money_flow[1]
             s0   == 50 + (IF net > 0 THEN 10 ELSE 0) + (IF net > 1000 THEN 10 ELSE 0)
             bait == IF pct_chg > 30 /\ net < -2000 THEN <<s0 - 30, "severe_bait">>
                     ELSE IF pct_chg > 20 /\ net < -1000 THEN <<s0 - 20, "bait">>
                     ELSE <<s0, "normal">>
         IN IF pct_chg < -30 /\ net > 2000 THEN <<bait[1] + 25, "clear_pit">>
            ELSE IF pct_chg < -20 /\ net > 1000 THEN <<bait[1] + 15, "pit">>
            ELSE bait

\* chip data: <<>> is None or {}; avg_cost 0 is a missing or zero avg_cost
Cyq(valid, winner_rate, avg_cost) ==
    [valid |-> valid, winner_rate |-> winner_rate, avg_cost |-> avg_cost]

\* calc_chip_risk with >= in place of > on the winner rate
CalcChipRisk_AtLeast(cyq_data, price) ==
    IF cyq_data = <<>> THEN <<50, "normal">>
    ELSE LET win  == cyq_data.winner_rate
             cost == IF cyq_data.avg_cost # 0 THEN cyq_data.avg_cost ELSE price
         IN IF win >= 90 /\ cost > 0 /\ (price - cost) * 100 > 20 * cost
            THEN <<win, "high_risk">> ELSE <<win, "normal">>

\* calc_chip_risk: bias = (price - cost) / cost * 100 when cost > 0, else 0
CalcChipRisk(cyq_data, price) ==
    IF cyq_data = <<>> THEN <<50, "normal">>
    ELSE LET win  == cyq_data.winner_rate
             cost == IF cyq_data.avg_cost # 0 THEN cyq_data.avg_cost ELSE price
         IN IF win > 90 /\ cost > 0 /\ (price - cost) * 100 > 20 * cost
            THEN <<win, "high_risk">> ELSE <<win, "normal">>

\* factor_chip_profit
FactorChipProfit(cyq_data) ==
    IF cyq_data = <<>> \/ ~cyq_data.valid THEN <<50, "no_data">>
    ELSE LET winner == cyq_data.winner_rate
         IN IF winner >= 90 THEN <<90, "main_control">>
            ELSE IF winner >= 70 THEN <<75, "profit_high">>
            ELSE IF winner >= 40 THEN <<55, "balanced">>
            ELSE IF winner >= 15 THEN <<35, "trapped">>
            ELSE <<50, "oversold_zone">>

\* analyze_intent with the score rules tried before the signal rules
AnalyzeIntent_ScoreFirst(score, flow_msg, chip_msg, pct_chg, tech_signal) ==
    IF score > 8500 THEN "main_rally"
    ELSE IF score > 7000 THEN "strong_surge"
    ELSE IF score < 3500 THEN "breakdown"
    ELSE IF Contains("touch_bottom", tech_signal) THEN "iron_bottom"
    ELSE IF Contains("touch_top", tech_signal) THEN "top_pullback"
    ELSE IF Contains("overbought", tech_signal) THEN "top_risk"
    ELSE IF Contains("oversold", tech_signal) THEN "golden_pit"
    ELSE IF Contains("bait", flow_msg) THEN "bait_distribution"
    ELSE IF Contains("pit", flow_msg) THEN "main_pit"
    ELSE IF Contains("high_risk", chip_msg) THEN "high_distribution"
    ELSE IF Contains("golden_cross", tech_signal) /\ score > 6500 THEN "trend_acceleration"
    ELSE IF 5000 < score /\ score < 7500 /\ -50 < pct_chg /\ pct_chg < 0 THEN "wash_out"
    ELSE "observe"

\* analyze_intent (factor_engine_v9); score in hundredths of a point
AnalyzeIntent(score, flow_msg, chip_msg, pct_chg, tech_signal) ==
    IF Contains("touch_bottom", tech_signal) THEN "iron_bottom"
    ELSE IF Contains("touch_top", tech_signal) THEN "top_pullback"
    ELSE IF Contains("overbought", tech_signal) THEN "top_risk"
    ELSE IF Contains("oversold", tech_signal) THEN "golden_pit"
    ELSE IF Contains("bait", flow_msg) THEN "bait_distribution"
    ELSE IF Contains("pit", flow_msg) THEN "main_pit"
    ELSE IF Contains("high_risk", chip_msg) THEN "high_distribution"
    ELSE IF Contains("golden_cross", tech_signal) /\ score > 6500 THEN "trend_acceleration"
    ELSE IF score > 8500 THEN "main_rally"
    ELSE IF score > 7000 THEN "strong_surge"
    ELSE IF score < 3500 THEN "breakdown"
    ELSE IF 5000 < score /\ score < 7500 /\ -50 < pct_chg /\ pct_chg < 0 THEN "wash_out"
    ELSE "observe"

\* StrategyPro.analyze_intent (strategy_pro): the same rules, written again
StrategyProAnalyzeIntent(score, flow_msg, chip_msg, pct_chg, tech_signal) ==
    IF Contains("touch_bottom", tech_signal) THEN "iron_bottom"
    ELSE IF Contains("touch_top", tech_signal) THEN "top_pullback"
    ELSE IF Contains("overbought", tech_signal) THEN "top_risk"
    ELSE IF Contains("oversold", tech_signal) THEN "golden_pit"
    ELSE IF Contains("bait", flow_msg) THEN "bait_distribution"
    ELSE IF Contains("pit", flow_msg) THEN "main_pit"
    ELSE IF Contains("high_risk", chip_msg) THEN "high_distribution"
    ELSE IF Contains("golden_cross", tech_signal) /\ score > 6500 THEN "trend_acceleration"
    ELSE IF score > 8500 THEN "main_rally"
    ELSE IF score > 7000 THEN "strong_surge"
    ELSE IF score < 3500 THEN "breakdown"
    ELSE IF 5000 < score /\ score < 7500 /\ -50 < pct_chg /\ pct_chg < 0 THEN "wash_out"
    ELSE "observe"

(***************************************************************************)
(* The factor functions.  daily is a sequence of bars, most recent first;  *)
(* a result is [raised, score, label], score in hundredths of a point.     *)
(***************************************************************************)
Max(a, b) == IF a > b THEN a ELSE b

Bar(close, vol, change_pct) == [close |-> close, vol |-> vol, change_pct |-> change_pct]

FR(score, label) == [raised |-> FALSE, score |-> score, label |-> label]
Raised           == [raised |-> TRUE, score |-> 0, label |-> "ZeroDivisionError"]

\* max(0, min(100, score))
Clamp100(x) == Max(0, Min(10000, x))

RECURSIVE SumField(_, _, _)
\* sum of a field over the first k bars
SumField(bars, field, k) ==
    IF k = 0 THEN 0 ELSE bars[k][field] + SumField(bars, field, k - 1)

\* factor_ma_alignment: ma5, ma10, ma20, ma60 compared through the sums
FactorMaAlignment(daily) ==
    IF Len(daily) < 60 THEN FR(5000, "insufficient_data")
    ELSE LET s5  == SumField(daily, "close", 5)
             s10 == SumField(daily, "close", 10)
             s20 == SumField(daily, "close", 20)
             s60 == SumField(daily, "close", 60)
             up1 == 2 * s5 > s10
             up2 == 2 * s10 > s20
             up3 == 3 * s20 > s60
             dn1 == 2 * s5 < s10
             dn2 == 2 * s10 < s20
             dn3 == 3 * s20 < s60
         IN IF up1 /\ up2 /\ up3 THEN FR(9500, "perfect_bull")
            ELSE IF up1 /\ up2 THEN FR(8000, "mid_bull")
            ELSE IF up1 THEN FR(6500, "short_up")
            ELSE IF dn1 /\ dn2 /\ dn3 THEN FR(1000, "bear_alignment")
            ELSE IF dn1 /\ dn2 THEN FR(2500, "mid_bear")
            ELSE IF dn1 THEN FR(4000, "short_weak")
            ELSE FR(5000, "consolidation")

\* (a - b) / b * 100 in hundredths, for b > 0
RocOf(a, b) == ((a - b) * 10000) \div b

\* factor_momentum
FactorMomentum(daily) ==
    IF Len(daily) < 20 THEN FR(5000, "insufficient_data")
    ELSE LET roc5  == IF daily[5].close > 0
                      THEN RocOf(daily[1].close, daily[5].close) ELSE 0
             roc10 == IF daily[10].close > 0
                      THEN RocOf(daily[1].close, daily[10].close) ELSE 0
             momentum == (6 * roc5 + 4 * roc10) \div 10
         IN FR(Clamp100(5000 + 3 * momentum),
               IF momentum > 500 THEN "strong_rise"
               ELSE IF momentum > 0 THEN "mild_rise"
               ELSE IF momentum > -500 THEN "mild_fall" ELSE "plunge")

\* max and min of a field over the first k bars
MaxField(bars, field, k) ==
    LET vals == {bars[j][field] : j \in 1..k}
    IN CHOOSE x \in vals : \A y \in vals : y <= x

MinField(bars, field, k) ==
    LET vals == {bars[j][field] : j \in 1..k}
    IN CHOOSE x \in vals : \A y \in vals : x <= y

\* factor_position
FactorPosition(daily) ==
    IF Len(daily) < 60 THEN FR(5000, "insufficient_data")
    ELSE LET current == daily[1].close
             high_60 == MaxField(daily, "close", 60)
             low_60  == MinField(daily, "close", 60)
         IN IF high_60 <= low_60 THEN FR(5000, "abnormal")
            ELSE IF high_60 = 0 THEN Raised       \* drawdown divides by high_60
            ELSE LET position_pct == ((current - low_60) * 10000) \div (high_60 - low_60)
                 IN FR(10000 - position_pct,
                       IF position_pct < 2000 THEN "deep_low"
                       ELSE IF position_pct < 4000 THEN "low"
                       ELSE IF position_pct < 6000 THEN "middle"
                       ELSE IF position_pct < 8000 THEN "high" ELSE "historic_high")

\* factor_volume_ratio: ratio = current / avg5, avg5 = sum(volumes[1:6]) / 5
FactorVolumeRatio(daily) ==
    IF Len(daily) < 10 THEN FR(5000, "insufficient_data")
    ELSE LET current == daily[1].vol
             sum5    == SumField(daily, "vol", 6) - daily[1].vol
         IN IF sum5 <= 0 THEN FR(5000, "abnormal")
            ELSE IF current * 5 >= 3 * sum5 THEN FR(9500, "huge_volume")
            ELSE IF current * 5 >= 2 * sum5 THEN FR(8500, "heavy_volume")
            ELSE IF current * 10 >= 3 * sum5 THEN FR(7500, "clear_volume")
            ELSE IF current * 5 >= sum5 THEN FR(6000, "mild_volume")
            ELSE IF current * 50 >= 7 * sum5 THEN FR(4500, "slight_shrink")
            ELSE FR(2500, "extreme_shrink")

\* the loop of factor_volume_pattern from bar i on: p_chg divides by
\* daily[i+1]['close'] without a guard, v_chg is guarded by vol > 0
RECURSIVE VolumePatternLoop(_, _, _)
VolumePatternLoop(daily, i, score) ==
    IF i > 3 THEN FR(Clamp100(score), "pattern")
    ELSE IF daily[i + 1].close = 0
    THEN Raised
    ELSE LET up    == daily[i].close > daily[i + 1].close
             down  == daily[i].close < daily[i + 1].close
             dv    == IF daily[i + 1].vol > 0 THEN daily[i].vol - daily[i + 1].vol ELSE 0
             more  == daily[i + 1].vol > 0 /\ dv * 100 > 10 * daily[i + 1].vol
             less  == daily[i + 1].vol > 0 /\ dv * 100 < -10 * daily[i + 1].vol
         IN VolumePatternLoop(daily, i + 1,
                IF up /\ more THEN score + 1000
                ELSE IF up /\ less THEN score - 500
                ELSE IF down /\ less THEN score + 500 ELSE score)

\* factor_volume_pattern
FactorVolumePattern(daily) ==
    IF Len(daily) < 5 THEN FR(5000, "insufficient_data")
    ELSE VolumePatternLoop(daily, 1, 5000)

RECURSIVE SumSeq(_)
SumSeq(q) == IF q = <<>> THEN 0 ELSE Head(q) + SumSeq(Tail(q))

\* factor_main_flow: money_flow is the sequence of main_net_inflow values
FactorMainFlow(money_flow) ==
    IF Len(money_flow) < 3 THEN FR(5000, "insufficient_data")
    ELSE LET flow_3d == SumSeq(SubSeq(money_flow, 1, 3))
             consecutive == IF money_flow[1] <= 0 THEN 0
                            ELSE IF money_flow[2] <= 0 THEN 1
                            ELSE IF money_flow[3] <= 0 THEN 2 ELSE 3
             s0 == IF flow_3d > 5000 THEN 8500
                   ELSE IF flow_3d > 2000 THEN 7500
                   ELSE IF flow_3d > 0 THEN 6000
                   ELSE IF flow_3d > -2000 THEN 4000 ELSE 2500
         IN FR(Clamp100(IF consecutive >= 3 THEN s0 + 1500 ELSE s0), "flow")

\* factor_market_sync: change_pct in tenths of a percent
FactorMarketSync(daily, market) ==
    IF Len(daily) < 5 \/ Len(market) < 5 THEN FR(5000, "insufficient_data")
    ELSE LET alpha == SumField(daily, "change_pct", 5) - SumField(market, "change_pct", 5)
         IN FR(Clamp100(5000 + alpha * 50),
               IF alpha > 30 THEN "outperform"
               ELSE IF alpha > 0 THEN "slightly_strong"
               ELSE IF alpha > -30 THEN "slightly_weak" ELSE "underperform")

(***************************************************************************)
(* calculate_v9_score.  Its input i holds daily, money_flow, market,       *)
(* cyq_data and realtime_fund (<<>> is None); the RSI, MACD and Bollinger  *)
(* scores and the result of calc_tech_indicators are functions of the      *)
(* closes that are taken as given: i.rsi_score, i.macd_score, i.bb_score   *)
(* and i.tech = <<tech_fix, tech_signal>>.                                 *)
(***************************************************************************)
min_bars        == 30       \* len(daily) < 30: insufficient data
diverge_penalty == 1500     \* final_score -= 15
diverge_bonus   == 1000     \* final_score += 10
chip_penalty    == 1000     \* final_score -= 10

\* the clamp of deep_verify's range check, 0..100
ClampScore_0_100(x) == Max(0, Min(10000, x))

\* max(1, min(99, final_score))
ClampScore(x) == Max(100, Min(9900, x))

\* round(final_score, 1): hundredths to tenths
RoundTenth(x) == (x + 5) \div 10

\* the money score: real-time data first, else factor_main_flow
MoneyScore(i) ==
    IF i.realtime_fund # <<>> /\ i.realtime_fund.valid
    THEN LET rt_net == i.realtime_fund.main_net
         IN FR(IF rt_net > 5000 THEN 9500
               ELSE IF rt_net > 2000 THEN 8000
               ELSE IF rt_net > 500 THEN 6500
               ELSE IF rt_net > -500 THEN 5000
               ELSE IF rt_net > -2000 THEN 3500 ELSE 1500, "realtime")
    ELSE FactorMainFlow(i.money_flow)

\* the results of the factor functions, in the order they are called
FactorResults(i) ==
    [ma          |-> FactorMaAlignment(i.daily),
     mom         |-> FactorMomentum(i.daily),
     pos         |-> FactorPosition(i.daily),
     vol_ratio   |-> FactorVolumeRatio(i.daily),
     vol_pattern |-> FactorVolumePattern(i.daily),
     chip        |-> FR(FactorChipProfit(i.cyq_data)[1] * 100,
                        FactorChipProfit(i.cyq_data)[2]),
     money       |-> MoneyScore(i),
     market      |-> FactorMarketSync(i.daily, i.market)]

\* some call inside the try block raises
Raises(i) == \E k \in DOMAIN FactorResults(i) : FactorResults(i)[k].raised

\* the six factor scores calculate_v9_score weighs, in hundredths
FactorScores(i) ==
    LET f == FactorResults(i)
    IN [trend    |-> (f.ma.score + f.mom.score + f.pos.score) \div 3,
        volume   |-> (f.vol_ratio.score + f.vol_pattern.score) \div 2,
        position |-> f.pos.score,
        chip     |-> f.chip.score,
        money    |-> f.money.score,
        market   |-> f.market.score]

RECURSIVE WeightedSum(_, _, _)
\* sum of score * weight over the keys q; weights taken to four decimals
WeightedSum(x, weights, q) ==
    IF q = <<>> THEN 0
    ELSE x[Head(q)] * (weights[Head(q)] \div 100) + WeightedSum(x, weights, Tail(q))

\* base_score = base_factor_score * 0.8 + tech_indicator_score * 0.2
BaseScore(weights, i) ==
    LET base_factor_score    == WeightedSum(FactorScores(i), weights, KeyOrder) \div 10000
        tech_indicator_score == 40 * i.rsi_score + 40 * i.macd_score + 20 * i.bb_score
    IN (8 * base_factor_score + 2 * tech_indicator_score) \div 10

\* pct_chg = daily[0].get('change_pct', 0); price = daily[0].get('close', 0)
PctChg(i) == i.daily[1].change_pct
Price(i)  == i.daily[1].close

FlowMsg(i) == CalcFundDivergence(i.money_flow, PctChg(i))[2]
ChipMsg(i) == CalcChipRisk(i.cyq_data, Price(i))[2]

\* the score before the clamp: technical correction, divergence penalty or
\* bonus (on the labels the code compares with ==), chip penalty
UnclampedScore(weights, i) ==
    BaseScore(weights, i) + 100 * i.tech[1]
    + (IF FlowMsg(i) = "bait" THEN -diverge_penalty
       ELSE IF FlowMsg(i) = "pit" THEN diverge_bonus ELSE 0)
    + (IF ChipMsg(i) = "high_risk" THEN -chip_penalty ELSE 0)

\* calculate_v9_score: [score, breakdown, decision], score in tenths
CalculateV9Score(weights, i) ==
    IF Len(i.daily) < min_bars
    THEN [score |-> 500, breakdown |-> <<>>, decision |-> "watch_only"]
    ELSE IF Raises(i)
    THEN [score |-> 500, breakdown |-> <<"error">>, decision |-> "watch_only"]
    ELSE LET final_score == ClampScore(UnclampedScore(weights, i))
         IN [score |-> RoundTenth(final_score),
             breakdown |-> [tech_signal |-> i.tech[2], flow_msg |-> FlowMsg(i),
                            chip_msg |-> ChipMsg(i)],
             decision |-> AnalyzeIntent(final_score, FlowMsg(i), ChipMsg(i),
                                        PctChg(i), i.tech[2])]

(***************************************************************************)
(* The scoring functions as calls: the regime is the process's, every      *)
(* other input is an argument                                              *)
(***************************************************************************)
\* n bars: head first, then copies of filler
MakeBars(n, head, filler) ==
    [k \in 1..n |-> IF k <= Len(head) THEN head[k] ELSE filler]

BarCounts  == {4, 5, 9, 10, 19, 20, 59, 60}
HeadBars   == {Bar(1000, 100, 50), Bar(1300, 400, -30), Bar(0, 100, 0), Bar(1000, 0, 0)}
FillerBars == {Bar(1000, 100, 0), Bar(0, 0, 0)}

\* the bar sequences the factor functions are called with
DailyInputs ==
    { MakeBars(n, <<a, b>>, f) : n \in BarCounts, a \in HeadBars, b \in HeadBars,
                                 f \in FillerBars }

MarketInputs == { <<>>, MakeBars(5, <<Bar(300000, 0, 10)>>, Bar(300000, 0, 0)) }

MoneyFlowInputs ==
    { <<>>, <<-3000, -3000, -3000>>, <<-1500, 0, 0>>, <<3000, 3000, 3000>>,
      <<1500, 200>>, <<500, -100, 100>> }

CyqInputs ==
    { <<>>, Cyq(TRUE, 95, 1000), Cyq(TRUE, 90, 1000), Cyq(TRUE, 50, 1000),
      Cyq(FALSE, 95, 1000), Cyq(TRUE, 95, 0), Cyq(TRUE, 95, 1100), Cyq(TRUE, 10, 1000) }

PriceInputs == {1000, 1200, 1201, 1300}

\* the inputs of calculate_v9_score
V9Dailies ==
    { MakeBars(29, <<>>, Bar(1000, 100, 0)),
      MakeBars(30, <<>>, Bar(1000, 100, 0)),
      MakeBars(60, <<Bar(1000, 100, 50)>>, Bar(1000, 100, 0)),
      MakeBars(60, <<Bar(1000, 100, 30)>>, Bar(1000, 100, 0)),
      MakeBars(60, <<Bar(1000, 100, -40)>>, Bar(1000, 100, 0)),
      MakeBars(60, <<Bar(1300, 400, 50), Bar(1300, 100, 50)>>, Bar(1000, 100, 0)),
      MakeBars(60, <<Bar(1300, 100, -30), Bar(1500, 100, 0)>>, Bar(1600, 100, 0)),
      MakeBars(60, <<Bar(1000, 100, 0), Bar(1000, 100, 0), Bar(0, 100, 0)>>,
               Bar(1000, 100, 0)) }

V9Inputs ==
    [daily : V9Dailies,
     money_flow : {<<>>, <<-3000, -3000, -3000>>, <<-1500, 0, 0>>, <<3000, 3000, 3000>>,
                   <<1500, 200, 100>>},
     market : {<<>>},
     cyq_data : {<<>>, Cyq(TRUE, 95, 1000), Cyq(TRUE, 50, 1000)},
     realtime_fund : {<<>>, [valid |-> TRUE, main_net |-> 6000]},
     rsi_score : {20, 80}, macd_score : {15}, bb_score : {20},
     tech : {<<25, "touch_bottom">>, <<-25, "touch_top">>, <<0, "ordinary">>}]

IntentScores == {3000, 5500, 6800, 7200, 9000}

IntentInputs ==
    [score : IntentScores,
     flow_msg : {"normal", "bait", "severe_bait", "pit", "clear_pit"},
     chip_msg : {"normal", "high_risk"},
     pct_chg : {-20, 10},
     tech_signal : {"ordinary", "touch_bottom", "touch_top", "overbought", "oversold",
                    "golden_cross"}]

PctInputs == {-40, -30, 10, 30, 50}

ScoreFrame == UNCHANGED <<dcVars, riskVars, wVars, held, thVars>>

\* no scoring call is waiting for its caller
Idle == call.op \in {"none", "set_market_regime"}

factor_ma_alignment(daily) ==
    /\ Idle
    /\ call' = [op |-> "factor_ma_alignment", arg |-> daily,
                ret |-> FactorMaAlignment(daily)]
    /\ ScoreFrame

factor_momentum(daily) ==
    /\ Idle
    /\ call' = [op |-> "factor_momentum", arg |-> daily, ret |-> FactorMomentum(daily)]
    /\ ScoreFrame

factor_position(daily) ==
    /\ Idle
    /\ call' = [op |-> "factor_position", arg |-> daily, ret |-> FactorPosition(daily)]
    /\ ScoreFrame

factor_volume_ratio(daily) ==
    /\ Idle
    /\ call' = [op |-> "factor_volume_ratio", arg |-> daily,
                ret |-> FactorVolumeRatio(daily)]
    /\ ScoreFrame

factor_volume_pattern(daily) ==
    /\ Idle
    /\ call' = [op |-> "factor_volume_pattern", arg |-> daily,
                ret |-> FactorVolumePattern(daily)]
    /\ ScoreFrame

factor_chip_profit(cyq_data) ==
    /\ Idle
    /\ call' = [op |-> "factor_chip_profit", arg |-> cyq_data,
                ret |-> FR(FactorChipProfit(cyq_data)[1] * 100,
                           FactorChipProfit(cyq_data)[2])]
    /\ ScoreFrame

factor_main_flow(money_flow) ==
    /\ Idle
    /\ call' = [op |-> "factor_main_flow", arg |-> money_flow,
                ret |-> FactorMainFlow(money_flow)]
    /\ ScoreFrame

factor_market_sync(daily, market) ==
    /\ Idle
    /\ call' = [op |-> "factor_market_sync",
                arg |-> [daily |-> daily, market |-> market],
                ret |-> FactorMarketSync(daily, market)]
    /\ ScoreFrame

calc_fund_divergence(money_flow, pct_chg) ==
    /\ Idle
    /\ call' = [op |-> "calc_fund_divergence",
                arg |-> [money_flow |-> money_flow, pct_chg |-> pct_chg],
                ret |-> CalcFundDivergence(money_flow, pct_chg)]
    /\ ScoreFrame

calc_chip_risk(cyq_data, price) ==
    /\ Idle
    /\ call' = [op |-> "calc_chip_risk",
                arg |-> [cyq_data |-> cyq_data, price |-> price],
                ret |-> CalcChipRisk(cyq_data, price)]
    /\ ScoreFrame

analyze_intent(a) ==
    /\ Idle
    /\ call' = [op |-> "analyze_intent", arg |-> a,
                ret |-> AnalyzeIntent(a.score, a.flow_msg, a.chip_msg, a.pct_chg,
                                      a.tech_signal)]
    /\ ScoreFrame

strategy_pro_analyze_intent(a) ==
    /\ Idle
    /\ call' = [op |-> "StrategyPro.analyze_intent", arg |-> a,
                ret |-> StrategyProAnalyzeIntent(a.score, a.flow_msg, a.chip_msg,
                                                 a.pct_chg, a.tech_signal)]
    /\ ScoreFrame

calculate_v9_score(i) ==
    /\ Idle
    /\ call' = [op |-> "calculate_v9_score", arg |-> i,
                ret |-> CalculateV9Score(
                            GetAdjustedWeights(BASE_WEIGHTS, CURRENT_REGIME).weights, i)]
    /\ ScoreFrame

\* the caller takes the result of the scoring call it made
take_result ==
    /\ ~Idle
    /\ call' = NoCall
    /\ ScoreFrame

NextScore ==
    \/ \E g \in RegimeInputs : set_market_regime(g)
    \/ \E d \in DailyInputs : factor_ma_alignment(d)
    \/ \E d \in DailyInputs : factor_momentum(d)
    \/ \E d \in DailyInputs : factor_position(d)
    \/ \E d \in DailyInputs : factor_volume_ratio(d)
    \/ \E d \in DailyInputs : factor_volume_pattern(d)
    \/ \E c \in CyqInputs : factor_chip_profit(c)
    \/ \E f \in MoneyFlowInputs : factor_main_flow(f)
    \/ \E d \in DailyInputs, m \in MarketInputs : factor_market_sync(d, m)
    \/ \E f \in MoneyFlowInputs, x \in PctInputs : calc_fund_divergence(f, x)
    \/ \E c \in CyqInputs, x \in PriceInputs : calc_chip_risk(c, x)
    \/ \E a \in IntentInputs : analyze_intent(a)
    \/ \E a \in IntentInputs : strategy_pro_analyze_intent(a)
    \/ \E i \in V9Inputs : calculate_v9_score(i)
    \/ take_result

SpecScore == Init /\ [][NextScore]_vars

(***************************************************************************)
(* WinRateModel.  Rates are in hundredths.  A probability p is held as the *)
(* square of its odds, (p / (1 - p))^2, a reduced fraction <<n, d>>: the   *)
(* square root taken at every update is then exact, and p grows with it.   *)
(***************************************************************************)
\* the fund-flow rates with the small inflow rated below neutral
FACTOR_WIN_RATES_BuyBelowNeutral ==
    [fund_flow_strong_buy |-> 62, fund_flow_buy |-> 44, fund_flow_neutral |-> 45,
     fund_flow_sell |-> 32, fund_flow_strong_sell |-> 18,
     trend_strong_up |-> 58, trend_up |-> 52, trend_neutral |-> 48,
     trend_down |-> 38, trend_strong_down |-> 28,
     macd_golden_cross |-> 55, macd_dead_cross |-> 42, rsi_oversold |-> 52,
     rsi_overbought |-> 40, bollinger_bottom |-> 54, bollinger_top |-> 32,
     chip_high_profit |-> 48, chip_low_profit |-> 52,
     market_bull |-> 56, market_shock |-> 48, market_bear |-> 35]

FACTOR_WIN_RATES ==
    [fund_flow_strong_buy |-> 62, fund_flow_buy |-> 54, fund_flow_neutral |-> 45,
     fund_flow_sell |-> 32, fund_flow_strong_sell |-> 18,
     trend_strong_up |-> 58, trend_up |-> 52, trend_neutral |-> 48,
     trend_down |-> 38, trend_strong_down |-> 28,
     macd_golden_cross |-> 55, macd_dead_cross |-> 42, rsi_oversold |-> 52,
     rsi_overbought |-> 40, bollinger_bottom |-> 54, bollinger_top |-> 32,
     chip_high_profit |-> 48, chip_low_profit |-> 52,
     market_bull |-> 56, market_shock |-> 48, market_bear |-> 35]

\* self.FACTOR_WIN_RATES.get(factor, 0.5)
FactorWinRate(factor) ==
    IF factor \in DOMAIN FACTOR_WIN_RATES THEN FACTOR_WIN_RATES[factor] ELSE 50

\* WinRateModel.classify_fund_flow
ClassifyFundFlow(main_net) ==
    IF main_net > 5000 THEN "fund_flow_strong_buy"
    ELSE IF main_net > 1000 THEN "fund_flow_buy"
    ELSE IF main_net > -1000 THEN "fund_flow_neutral"
    ELSE IF main_net > -5000 THEN "fund_flow_sell"
    ELSE "fund_flow_strong_sell"

RECURSIVE GCD(_, _)
GCD(a, b) == IF b = 0 THEN a ELSE GCD(b, a % b)

\* the fraction n / d in lowest terms
Frac(n, d) == <<n \div GCD(n, d), d \div GCD(n, d)>>

\* a/b <= c/d for a, c >= 0 and b, d > 0, by continued fractions
RECURSIVE FracLeq(_, _, _, _)
FracLeq(a, b, c, d) ==
    IF a \div b # c \div d THEN a \div b < c \div d
    ELSE IF a % b = 0 THEN TRUE
    ELSE IF c % d = 0 THEN FALSE
    ELSE FracLeq(d, c % d, b, a % b)

Leq(x, y) == FracLeq(x[1], x[2], y[1], y[2])

\* odds after the first k factors, squared: every factor whose rate is not
\* 0.5 multiplies the odds by (rate / (1 - rate)) ** 0.5
RECURSIVE OddsSquared(_, _)
OddsSquared(factors, k) ==
    IF k = 0 THEN <<1, 1>>
    ELSE LET odds == OddsSquared(factors, k - 1)
             factor_prob == FactorWinRate(factors[k])
         IN IF factor_prob # 50
            THEN Frac(odds[1] * factor_prob, odds[2] * (100 - factor_prob))
            ELSE odds

\* the probabilities 0.15 and 0.85
prob_floor == Frac(15 * 15, 85 * 85)
prob_cap   == Frac(85 * 85, 15 * 15)

\* max(0.15, min(0.85, prob))
ClampProb(prob) ==
    IF Leq(prob, prob_floor) THEN prob_floor
    ELSE IF Leq(prob_cap, prob) THEN prob_cap
    ELSE prob

\* WinRateModel.calculate_win_probability: <<prob, details>>
CalculateWinProbability(factors) ==
    IF factors = <<>> THEN << <<1, 1>>, <<>> >>
    ELSE << ClampProb(OddsSquared(factors, Len(factors))),
            [k \in 1..Len(factors) |-> <<factors[k], FactorWinRate(factors[k])>>] >>

\* the factor list WinRateModel.predict hands to calculate_win_probability:
\* the fund bucket, the trend bucket when there are 20 bars, the technical
\* signals and the market state
PredictFactors(main_net_flow, trend, tech, regime) ==
    <<ClassifyFundFlow(main_net_flow)>> \o trend \o tech \o <<regime>>

FlowNets == {-6000, -5000, -4999, -1000, -999, 0, 1000, 1001, 5000, 5001, 6000}

TrendInputs ==
    { <<>>, <<"trend_strong_up">>, <<"trend_up">>, <<"trend_neutral">>,
      <<"trend_down">>, <<"trend_strong_down">> }

\* classify_tech_signal: one RSI signal at most, then one MACD signal at
\* most, ['trend_neutral'] when there is neither
TechSignalInputs ==
    { <<"trend_neutral">>, <<"rsi_oversold">>, <<"rsi_overbought">>,
      <<"macd_golden_cross">>, <<"macd_dead_cross">>,
      <<"rsi_oversold", "macd_golden_cross">>, <<"rsi_oversold", "macd_dead_cross">>,
      <<"rsi_overbought", "macd_golden_cross">>,
      <<"rsi_overbought", "macd_dead_cross">> }

\* f'market_{market_regime}'; market_regime is any string
MarketFactors == {"market_bull", "market_shock", "market_bear", "market_other"}

WinFactorInputs ==
    {<<>>} \cup { PredictFactors(n, t, s, g) : n \in FlowNets, t \in TrendInputs,
                                               s \in TechSignalInputs,
                                               g \in MarketFactors }

classify_fund_flow(main_net) ==
    /\ Idle
    /\ call' = [op |-> "classify_fund_flow", arg |-> main_net,
                ret |-> ClassifyFundFlow(main_net)]
    /\ ScoreFrame

calculate_win_probability(factors) ==
    /\ Idle
    /\ call' = [op |-> "calculate_win_probability", arg |-> factors,
                ret |-> CalculateWinProbability(factors)]
    /\ ScoreFrame

NextWin ==
    \/ \E n \in FlowNets : classify_fund_flow(n)
    \/ \E f \in WinFactorInputs : calculate_win_probability(f)
    \/ take_result

SpecWin == Init /\ [][NextWin]_vars

(***************************************************************************)
(* ConfigManager.  Weights in thousandths, percentages in tenths.  Of the  *)
(* configuration, the sections validate reads: scoring_weights and         *)
(* risk_control.  A ConfigManager object is the value                      *)
(* [config, loaded_from_file, printed].                                    *)
(***************************************************************************)
\* DEFAULT_CONFIG
DEFAULT_CONFIG ==
    [scoring_weights |-> [trend |-> 200, volume |-> 150, position |-> 150,
                          chip |-> 200, money |-> 200, market |-> 100],
     risk_control |-> [stop_loss_pct |-> -50, take_profit_pct |-> 100]]

\* deep_merge on a section: the keys of override replace or extend base
MergeSection(base, override) ==
    [k \in DOMAIN base \cup DOMAIN override |->
        IF k \in DOMAIN override THEN override[k] ELSE base[k]]

\* ConfigManager._merge_config: deep_merge(self.config, new_config)
MergeConfig(config, new_config) ==
    [k \in DOMAIN config \cup DOMAIN new_config |->
        IF k \in DOMAIN config /\ k \in DOMAIN new_config
        THEN MergeSection(config[k], new_config[k])
        ELSE IF k \in DOMAIN new_config THEN new_config[k] ELSE config[k]]

\* ConfigManager.__init__ with _load_from_file.  The file is absent (no path
\* or no such file), unreadable as JSON, or holds new_config.
ConfigManagerInit(file) ==
    CASE file.kind = "absent" ->
             [config |-> DEFAULT_CONFIG, loaded_from_file |-> FALSE, printed |-> ""]
      [] file.kind = "malformed" ->
             [config |-> DEFAULT_CONFIG, loaded_from_file |-> FALSE,
              printed |-> "load_failed_using_defaults"]
      [] file.kind = "json" ->
             [config |-> MergeConfig(DEFAULT_CONFIG, file.content),
              loaded_from_file |-> TRUE, printed |-> "load_succeeded"]

\* ConfigManager.get_scoring_weights
GetScoringWeights(self) == self.config.scoring_weights

RECURSIVE SumValues(_, _)
\* sum(weights.values())
SumValues(w, keys) ==
    IF keys = {} THEN 0
    ELSE LET k == CHOOSE x \in keys : TRUE
         IN w[k] + SumValues(w, keys \ {k})

weights_tolerance == 10            \* abs(total - 1.0) > 0.01

\* ConfigManager.validate: <<valid, issues>>
Validate(self) ==
    LET weights == GetScoringWeights(self)
        total   == SumValues(weights, DOMAIN weights)
        risk    == self.config.risk_control
        issues  ==
            (IF DOMAIN weights # {}
                /\ (total - 1000 > weights_tolerance \/ 1000 - total > weights_tolerance)
             THEN <<"weights_do_not_sum_to_1">> ELSE <<>>)
            \o (IF risk.stop_loss_pct >= 0 THEN <<"stop_loss_not_negative">> ELSE <<>>)
            \o (IF risk.take_profit_pct <= 0 THEN <<"take_profit_not_positive">> ELSE <<>>)
    IN <<issues = <<>>, issues>>

\* the weights a configuration file sets
WeightOverrides ==
    UNION { [ks -> {100, 300}] : ks \in SUBSET {"trend", "money", "market", "sentiment"} }

RiskOverrides == { [k \in {} |-> 0], [stop_loss_pct |-> 50] }

\* the configuration files ConfigManager is constructed on
ConfigFiles ==
    { [kind |-> "absent", content |-> [k \in {} |-> 0]],
      [kind |-> "malformed", content |-> [k \in {} |-> 0]] }
    \cup { [kind |-> "json", content |-> [scoring_weights |-> w, risk_control |-> r]] :
               w \in WeightOverrides, r \in RiskOverrides }
    \cup { [kind |-> "json", content |-> [risk_control |-> r]] : r \in RiskOverrides }

\* ConfigManager(config_path)
config_manager(file) ==
    /\ Idle
    /\ call' = [op |-> "ConfigManager", arg |-> file, ret |-> ConfigManagerInit(file)]
    /\ ScoreFrame

\* a method called on the ConfigManager just constructed
get_scoring_weights ==
    /\ call.op = "ConfigManager"
    /\ call' = [op |-> "get_scoring_weights", arg |-> call.ret,
                ret |-> GetScoringWeights(call.ret)]
    /\ ScoreFrame

validate ==
    /\ call.op = "ConfigManager"
    /\ call' = [op |-> "validate", arg |-> call.ret, ret |-> Validate(call.ret)]
    /\ ScoreFrame

NextConfig ==
    \/ \E f \in ConfigFiles : config_manager(f)
    \/ get_scoring_weights
    \/ validate
    \/ get_adjusted_weights
    \/ \E g \in RegimeInputs : set_market_regime(g)
    \/ take_result

SpecConfig == Init /\ [][NextConfig]_vars

(***************************************************************************)
(* RealtimeFundFlow.get_realtime_fund_analysis.  Amounts in units of       *)
(* 10,000 yuan, ratios in hundredths, percentages in tenths.  A source is  *)
(* what became of its fetch: "valid" (a dict with valid: True), "invalid"  *)
(* (a dict with valid: False), "raised" (future.result() raises),          *)
(* "unfinished" (not done when as_completed's 10 seconds are over).        *)
(***************************************************************************)
SourceOutcomes == {"valid", "invalid", "raised", "unfinished"}

\* results[source]: the dict the fetch returned, {'valid': False} if it raised
SourceResult(src) ==
    IF src.outcome = "raised" THEN [src EXCEPT !.outcome = "invalid"] ELSE src

\* results.get(source, {}).get('valid')
SourceValid(src) == SourceResult(src).outcome = "valid"

em_confidence   == 40
qq_confidence   == 30
sina_confidence == 30

\* the fund trend read off main_net
FundTrend(main_net) ==
    IF main_net > 500 THEN "large_inflow"
    ELSE IF main_net > 100 THEN "inflow"
    ELSE IF main_net < -500 THEN "large_outflow"
    ELSE IF main_net < -100 THEN "outflow"
    ELSE "balanced"

\* the four risk cases in the order they are tested; a later one overwrites
\* an earlier one.  <<risk_signal, suggestion>>
RiskSignal(main_net, power_ratio, qq) ==
    LET none == <<"None", "watch">>
        r1 == IF main_net < -500 /\ power_ratio < 80
              THEN <<"main_distribution", "reduce">> ELSE none
        r2 == IF SourceValid(qq) /\ qq.pct_change < -30
              THEN IF main_net > 0 THEN <<"data_divergence", "data_may_lag">>
                   ELSE <<"sustained_outflow", "no_bottom_fishing">>
              ELSE r1
        r3 == IF SourceValid(qq) /\ qq.pct_change < -20 /\ power_ratio > 150
              THEN <<"possible_washout", "possible_washout">> ELSE r2
        r4 == IF main_net > 1000 /\ power_ratio > 120
              THEN <<"main_rush", "funds_entering">> ELSE r3
    IN IF r4[1] = "None" THEN <<"fund_normal", r4[2]>> ELSE r4

\* RealtimeFundFlow.get_realtime_fund_analysis
GetRealtimeFundAnalysis(srcs) ==
    IF \E k \in DOMAIN srcs : srcs[k].outcome = "unfinished"
    THEN [raised |-> TRUE, error |-> "TimeoutError"]    \* as_completed(timeout=10)
    ELSE LET em   == SourceResult(srcs.eastmoney)
             sina == SourceResult(srcs.sina)
             qq   == SourceResult(srcs.tencent)
             main_net    == IF SourceValid(em) THEN em.main_net ELSE 0
             power_ratio == IF SourceValid(qq) THEN qq.power_ratio ELSE 100
             bs_ratio    == IF SourceValid(sina) THEN sina.bs_ratio ELSE 100
             sources ==
                 (IF SourceValid(em) THEN <<"eastmoney">> ELSE <<>>)
                 \o (IF SourceValid(qq) THEN <<"tencent">> ELSE <<>>)
                 \o (IF SourceValid(sina) THEN <<"sina">> ELSE <<>>)
             confidence ==
                 (IF SourceValid(em) THEN em_confidence ELSE 0)
                 + (IF SourceValid(qq) THEN qq_confidence ELSE 0)
                 + (IF SourceValid(sina) THEN sina_confidence ELSE 0)
             risk == RiskSignal(main_net, power_ratio, qq)
         IN IF sources = <<>>
            THEN [raised |-> FALSE, valid |-> FALSE,
                  message |-> "all_sources_unavailable"]
            ELSE [raised |-> FALSE, valid |-> TRUE, main_net |-> main_net,
                  fund_trend |-> FundTrend(main_net), power_ratio |-> power_ratio,
                  bs_ratio |-> bs_ratio, risk_signal |-> risk[1],
                  suggestion |-> risk[2], confidence |-> confidence,
                  sources |-> sources]

\* what the three fetches come to
EastmoneyOutcomes ==
    [outcome : {"valid"}, main_net : {-600, 50, 1200}]
    \cup [outcome : SourceOutcomes \ {"valid"}, main_net : {0}]

SinaOutcomes ==
    [outcome : {"valid"}, bs_ratio : {110}]
    \cup [outcome : SourceOutcomes \ {"valid"}, bs_ratio : {0}]

TencentOutcomes ==
    [outcome : {"valid"}, power_ratio : {70, 160}, pct_change : {-40, 0}]
    \cup [outcome : SourceOutcomes \ {"valid"}, power_ratio : {0}, pct_change : {0}]

FundSources ==
    [eastmoney : EastmoneyOutcomes, sina : SinaOutcomes, tencent : TencentOutcomes]

get_realtime_fund_analysis(srcs) ==
    /\ Idle
    /\ call' = [op |-> "get_realtime_fund_analysis", arg |-> srcs,
                ret |-> GetRealtimeFundAnalysis(srcs)]
    /\ ScoreFrame

NextFund ==
    \/ \E srcs \in FundSources : get_realtime_fund_analysis(srcs)
    \/ take_result

SpecFund == Init /\ [][NextFund]_vars

(***************************************************************************)
(* The scoring step of stock_detail: the real-time fund analysis is        *)
(* fetched first and handed to calculate_v9_score                          *)
(***************************************************************************)
\* realtime_fund_data: None when the analysis raised, else the dict returned
RealtimeFundData(srcs) ==
    LET data == GetRealtimeFundAnalysis(srcs)
    IN IF data.raised THEN <<>> ELSE data

\* calculate_v9_score(daily, flow, mkt, cyq, realtime_fund_data), with the
\* money score and label it weighs
StockDetailScore(weights, srcs, i) ==
    LET scored == [i EXCEPT !.realtime_fund = RealtimeFundData(srcs)]
    IN [realtime_fund_data |-> RealtimeFundData(srcs),
        money |-> MoneyScore(scored),
        v9    |-> CalculateV9Score(weights, scored)]

DetailV9Inputs ==
    [daily : { MakeBars(60, <<Bar(1000, 100, 30)>>, Bar(1000, 100, 0)) },
     money_flow : {<<>>, <<-3000, -3000, -3000>>, <<3000, 3000, 3000>>},
     market : {<<>>},
     cyq_data : {<<>>},
     realtime_fund : {<<>>},
     rsi_score : {20}, macd_score : {15}, bb_score : {20},
     tech : {<<0, "ordinary">>}]

stock_detail_score(srcs, i) ==
    /\ Idle
    /\ call' = [op |-> "stock_detail_score", arg |-> [srcs |-> srcs, i |-> i],
                ret |-> StockDetailScore(
                            GetAdjustedWeights(BASE_WEIGHTS, CURRENT_REGIME).weights,
                            srcs, i)]
    /\ ScoreFrame

NextRealtime ==
    \/ \E srcs \in FundSources : get_realtime_fund_analysis(srcs)
    \/ \E srcs \in FundSources, i \in DetailV9Inputs : stock_detail_score(srcs, i)
    \/ take_result

SpecRealtime == Init /\ [][NextRealtime]_vars

(***************************************************************************)
(* The regime classifier and the process-wide regime                       *)
(***************************************************************************)
\* calc_regime: the index's latest close against its 20-bar average
CalcRegime(market) ==
    IF Len(market) < 20 THEN "SHOCK"
    ELSE LET total == SumField(market, "close", 20)        \* 20 * ma20
             c0    == market[1].close
         IN IF total = 0 THEN "ZeroDivisionError"
            ELSE IF (20 * c0 - total) * 100 > total THEN "BULL"
            ELSE IF (20 * c0 - total) * 100 < -total THEN "BEAR"
            ELSE "SHOCK"

\* the index bars calc_regime is called with
RegimeMarkets ==
    {<<>>} \cup { MakeBars(n, <<Bar(c, 0, 0)>>, Bar(1000, 0, 0)) :
                      n \in {19, 20, 25, 30},
                      c \in {900, 980, 989, 990, 1000, 1010, 1011, 1020, 1100} }

\* what set_market_regime is called with: the strings of the API, and the
\* strings calc_regime returns
RegimeArgs == RegimeInputs \cup { CalcRegime(m) : m \in RegimeMarkets }

calc_regime(market) ==
    /\ call' = [op |-> "calc_regime", arg |-> market, ret |-> CalcRegime(market)]
    /\ UNCHANGED <<dcVars, riskVars, wVars, held, thVars>>

NextRegime ==
    \/ \E m \in RegimeMarkets : calc_regime(m)
    \/ \E g \in RegimeArgs : set_market_regime(g)
    \/ get_current_regime
    \/ get_adjusted_weights

SpecRegime == Init /\ [][NextRegime]_vars

(***************************************************************************)
(* The market regime of the stock-detail evaluation and the win rate it    *)
(* feeds.  index_data is oldest bar first; means are compared through sums.*)
(***************************************************************************)
RECURSIVE SumCloses(_, _, _)
\* sum of the closes of bars a..b, by halves
SumCloses(bars, a, b) ==
    IF a > b THEN 0
    ELSE IF a = b THEN bars[a].close
    ELSE SumCloses(bars, a, (a + b) \div 2) + SumCloses(bars, (a + b) \div 2 + 1, b)

\* sum(closes[-k:])
SumLast(bars, k) == SumCloses(bars, Len(bars) - k + 1, Len(bars))

\* EnhancedRiskControl.detect_market_regime: the 'regime' of the result;
\* trend_20 and trend_50 divide by closes[-20] and closes[-50]
DetectMarketRegime(index_data) ==
    IF Len(index_data) < 200 THEN [raised |-> FALSE, regime |-> "UNKNOWN", score |-> 0]
    ELSE LET n       == Len(index_data)
             s20     == SumLast(index_data, 20)
             s50     == SumLast(index_data, 50)
             s200    == SumLast(index_data, 200)
             current == index_data[n].close
             c20     == index_data[n - 19].close
             c50     == index_data[n - 49].close
             align   == IF 5 * s20 > 2 * s50 /\ 4 * s50 > s200 THEN 40
                        ELSE IF 5 * s20 < 2 * s50 /\ 4 * s50 < s200 THEN -40
                        ELSE 0
             above   == (IF 200 * current > s200 THEN 20 ELSE -20)
                        + (IF 50 * current > s50 THEN 15 ELSE -15)
                        + (IF 20 * current > s20 THEN 10 ELSE -10)
             trend   == IF (current - c20) * 100 > 10 * c20 THEN 15
                        ELSE IF (current - c20) * 100 < -10 * c20 THEN -15
                        ELSE 0
             score   == align + above + trend
         IN IF c20 = 0 \/ c50 = 0
            THEN [raised |-> TRUE, regime |-> "ZeroDivisionError", score |-> 0]
            ELSE [raised |-> FALSE,
                  regime |-> IF score >= 50 THEN "BULL"
                             ELSE IF score <= -50 THEN "BEAR" ELSE "SHOCK",
                  score  |-> score]

\* main.py stock_detail: dec['market_regime'] is set when the enhanced risk
\* block reaches the detection with 200 index bars and nothing raises;
\* dec.get('market_regime', 'shock') is what quick_win_rate is given
StockDetailRegime(reached, mkt) ==
    IF reached /\ Len(mkt) >= 200 /\ ~DetectMarketRegime(mkt).raised
    THEN DetectMarketRegime(mkt).regime
    ELSE "shock"

\* f'market_{market_regime}'
MarketFactor(market_regime) ==
    CASE market_regime = "bull"    -> "market_bull"
      [] market_regime = "bear"    -> "market_bear"
      [] market_regime = "shock"   -> "market_shock"
      [] market_regime = "BULL"    -> "market_BULL"
      [] market_regime = "BEAR"    -> "market_BEAR"
      [] market_regime = "SHOCK"   -> "market_SHOCK"
      [] market_regime = "UNKNOWN" -> "market_UNKNOWN"
      [] OTHER                     -> "market_other"

\* quick_win_rate: the factor list and the probability computed from it
QuickWinRate(main_net_flow, score, market_regime) ==
    LET factors == <<ClassifyFundFlow(main_net_flow), MarketFactor(market_regime)>>
                   \o (IF score >= 70 THEN <<"trend_strong_up">>
                       ELSE IF score >= 55 THEN <<"trend_up">>
                       ELSE IF score <= 35 THEN <<"trend_down">>
                       ELSE <<>>)
    IN [factors  |-> factors,
        win_prob |-> CalculateWinProbability(factors)[1]]

\* n index bars, oldest first: the last k at the close recent, the others at old
IndexSeries(n, old, recent, k) ==
    [i \in 1..n |-> Bar(IF i > n - k THEN recent ELSE old, 0, 0)]

IndexInputs ==
    { <<>>, IndexSeries(199, 1000, 1500, 20) }
    \cup { IndexSeries(n, 1000, recent, k) :
               n \in {200, 250}, recent \in {500, 1000, 1500}, k \in {19, 20} }
    \cup { IndexSeries(200, 0, 1000, 20) }

DetailScores == {30, 50, 60, 80}
DetailFlows  == {-6000, -2500, 0, 2500, 6000}
DetailRegimes == {"bull", "bear", "shock", "BULL", "BEAR", "SHOCK", "UNKNOWN"}

detect_market_regime(index_data) ==
    /\ Idle
    /\ call' = [op |-> "detect_market_regime", arg |-> index_data,
                ret |-> DetectMarketRegime(index_data)]
    /\ ScoreFrame

quick_win_rate(main_net_flow, score, market_regime) ==
    /\ Idle
    /\ call' = [op |-> "quick_win_rate",
                arg |-> [main_net_flow |-> main_net_flow, score |-> score,
                         market_regime |-> market_regime],
                ret |-> QuickWinRate(main_net_flow, score, market_regime)]
    /\ ScoreFrame

\* the win-rate step of stock_detail
stock_detail_win_rate(reached, mkt, realtime_net, score) ==
    /\ Idle
    /\ call' = [op |-> "stock_detail_win_rate",
                arg |-> [reached |-> reached, mkt |-> mkt,
                         realtime_net |-> realtime_net, score |-> score],
                ret |-> QuickWinRate(realtime_net, score,
                                     StockDetailRegime(reached, mkt))]
    /\ ScoreFrame

NextDetail ==
    \/ \E m \in IndexInputs : detect_market_regime(m)
    \/ \E f \in DetailFlows, x \in DetailScores, g \in DetailRegimes :
           quick_win_rate(f, x, g)
    \/ \E b \in BOOLEAN, m \in IndexInputs, f \in DetailFlows, x \in DetailScores :
           stock_detail_win_rate(b, m, f, x)
    \/ take_result

SpecDetail == Init /\ [][NextDetail]_vars

(***************************************************************************)
(* Claims on DecisionCore                                                  *)
(***************************************************************************)
IsTrigger(j) == j.priority \in {0, 1, 2} /\ j.signal \in {"sell", "strong_sell", "veto"}

HasTrigger == \E i \in DOMAIN judgments : IsTrigger(judgments[i])

Rendered == call.op = "make_verdict"

ConditionNames ==
    {"account_drawdown", "consecutive_losses", "market_sentiment",
     "main_net_outflow", "buy_sell_ratio_low", "fund_trend"}
VetoedByCondition ==
    \E i \in DOMAIN veto_reasons : veto_reasons[i][1] \in ConditionNames

\* C2: a vetoed verdict is 'run' exactly when the signal that triggered the
\* veto was STRONG_SELL, else 'watch'.  Stated in the form every reading of
\* "the signal that triggered the veto" implies: a vetoed verdict is 'run'
\* or 'watch'; if it is 'run', some judgment that triggered the veto (P0-P2,
\* SELL/STRONG_SELL/VETO) carries STRONG_SELL; and if every trigger is a
\* STRONG_SELL judgment (no condition of check_veto_conditions among them),
\* it is 'run'.
C2_RunIffStrongSellVeto ==
    (Rendered /\ call.ret.is_vetoed) =>
        /\ call.ret.action_class \in {"run", "watch"}
        /\ call.ret.action_class = "run" =>
               \E i \in DOMAIN judgments :
                   IsTrigger(judgments[i]) /\ judgments[i].signal = "strong_sell"
        /\ ( /\ HasTrigger
             /\ ~VetoedByCondition
             /\ \A i \in DOMAIN judgments :
                    IsTrigger(judgments[i]) => judgments[i].signal = "strong_sell" )
           => call.ret.action_class = "run"

\* the scores of the tally, recomputed from the judgments (units of 1/600)
RECURSIVE ScoreOf(_, _)
ScoreOf(js, sigs) ==
    IF js = <<>> THEN 0
    ELSE (IF Head(js).signal \in sigs
          THEN (60 \div (Head(js).priority + 1)) * Head(js).confidence ELSE 0)
         + ScoreOf(Tail(js), sigs)
CountOf(js, sigs) == Cardinality({i \in DOMAIN js : js[i].signal \in sigs})

BuyScore  == ScoreOf(judgments, {"buy", "strong_buy"})
SellScore == ScoreOf(judgments, {"sell", "strong_sell"})
BuyCount  == CountOf(judgments, {"buy", "strong_buy"})
SellCount == CountOf(judgments, {"sell", "strong_sell"})

GoCond   == BuyCount >= 2 /\ BuyScore > SellScore + 300
SellCond == SellScore > BuyScore + 180 \/ SellCount >= 2
MixedReasons == {"insufficient_or_mixed", "no_valid_signal"}

\* C3 as claimed: with the veto flag not set, make_verdict returns 'go' only
\* if at least two BUY-class judgments were added and the buy score exceeds
\* the sell score by at least 0.5; if the sell score exceeds the buy score by
\* 0.3 or there are two or more SELL-class judgments it returns 'watch'; in
\* every other case it returns 'watch' with the insufficient/mixed reason.
C3_TallyAsClaimed ==
    (Rendered /\ ~veto_active) =>
        /\ call.ret.action_class = "go" =>
               (BuyCount >= 2 /\ BuyScore >= SellScore + 300)
        /\ SellCond => call.ret.action_class = "watch"
        /\ (call.ret.action_class # "go" /\ ~SellCond) =>
               /\ call.ret.action_class = "watch"
               /\ call.ret.primary_reason[1] \in MixedReasons

\* C3 as amended: with the veto flag not set, make_verdict returns 'go'
\* exactly when at least two BUY-class judgments were added and the buy score
\* is strictly more than 0.5 above the sell score - also when there are two or
\* more SELL-class judgments; when that fails and the sell score is more than
\* 0.3 above the buy score or there are two or more SELL-class judgments, it
\* returns 'watch' with the reason of the highest-priority judgment; in every
\* other case it returns 'watch' with the insufficient/mixed reason (the
\* no-valid-signal reason when no judgment was added).
C3_TallyCascade ==
    (Rendered /\ ~veto_active) =>
        /\ ~call.ret.is_vetoed
        /\ call.ret.action_class = "go" <=> GoCond
        /\ (~GoCond /\ SellCond) =>
               /\ call.ret.action_class = "watch"
               /\ call.ret.primary_reason = <<SortedJudgments(judgments)[1].reason, 0>>
        /\ (~GoCond /\ ~SellCond) =>
               /\ call.ret.action_class = "watch"
               /\ call.ret.primary_reason[1] =
                      IF judgments = <<>> THEN "no_valid_signal"
                      ELSE "insufficient_or_mixed"

\* two P0 BUYs outweigh two P3/P4 SELL-class judgments: 'go' with two sells
C3_Witness ==
    /\ Rendered /\ ~veto_active
    /\ SellCount >= 2 /\ GoCond
    /\ call.ret.action_class = "go"

IsPrefix(a, b) == Len(a) <= Len(b) /\ SubSeq(b, 1, Len(a)) = a

\* C4: once veto_active is true, every call other than reset() leaves it true
\* and keeps every recorded veto reason (veto_reasons only grows at its end).
C4_VetoSticky ==
    [][ (veto_active /\ call'.op # "reset") =>
            (veto_active' /\ IsPrefix(veto_reasons, veto_reasons')) ]_vars

\* a P0 BUY has just been added to a core whose veto flag was already set
C4_Witness ==
    /\ veto_active
    /\ call.op = "add_judgment"
    /\ call.arg.priority = 0 /\ call.arg.signal = "buy"
    /\ Len(judgments) = 2

(***************************************************************************)
(* Claims on GlobalRiskState and the evaluations that read it              *)
(***************************************************************************)
LosingTrade(c)  == c.op = "record_trade_result" /\ ~c.arg.is_win
WinningTrade(c) == c.op = "record_trade_result" /\ c.arg.is_win

\* C5: after two consecutive losing record_trade_result calls the kill switch
\* is on; once on, it stays on across every call other than
\* deactivate_kill_switch (winning or losing trades, drawdown updates, a
\* recovery to zero drawdown included); is_trading_allowed returns False
\* exactly while it is on, and deactivate_kill_switch turns it off.
C5_KillSwitchPersists ==
    /\ [][ (LosingTrade(call) /\ LosingTrade(call')) => kill_switch_active' ]_vars
    /\ [][ (kill_switch_active /\ call'.op # "deactivate_kill_switch")
               => kill_switch_active' ]_vars
    /\ [](call.op = "is_trading_allowed" => (call.ret[1] <=> ~kill_switch_active))
    /\ [](call.op = "deactivate_kill_switch" => ~kill_switch_active)

\* the switch was tripped by two losses; since then a win has reset the
\* counter and the drawdown has recovered to zero, and is_trading_allowed
\* has just answered False
C5_Witness ==
    /\ call.op = "is_trading_allowed" /\ ~call.ret[1]
    /\ kill_reason = <<"consecutive_losses", 2>>
    /\ consecutive_losses = 0
    /\ account_drawdown = <<0, 100>>

\* C6: right after a losing record_trade_result that leaves
\* consecutive_losses >= 2 the kill switch is on; right after an
\* update_drawdown with peak > 0 and (peak - current)/peak >= 0.10 the kill
\* switch is on; each whatever the other trigger's state.  A winning trade
\* leaves consecutive_losses = 0, and a loss that follows a win leaves the
\* counter at 1 and does not turn the switch on.
C6_IndependentTriggers ==
    /\ []((LosingTrade(call) /\ consecutive_losses >= 2) => kill_switch_active)
    /\ []((/\ call.op = "update_drawdown"
           /\ call.arg.peak_value > 0
           /\ (call.arg.peak_value - call.arg.current_value) * 10
                  >= call.arg.peak_value)
          => kill_switch_active)
    /\ [](WinningTrade(call) => consecutive_losses = 0)
    /\ [][ (WinningTrade(call) /\ LosingTrade(call') /\ ~kill_switch_active)
              => (~kill_switch_active' /\ consecutive_losses' = 1) ]_vars

\* the drawdown trigger alone: a 10% drawdown has just turned the switch on
\* while no loss is counted
C6_Witness ==
    /\ call.op = "update_drawdown"
    /\ call.arg = [current_value |-> 90, peak_value |-> 100]
    /\ consecutive_losses = 0
    /\ kill_switch_active
    /\ kill_reason = <<"account_drawdown", 100>>

BuildsVerdict == {"stock_detail", "_generate_unified_signal", "quick_verdict"}

HasGlobalRiskVeto(verdict) ==
    \E i \in 1..Len(verdict.all_inputs) :
        /\ verdict.all_inputs[i].priority = P0_ACCOUNT_RISK
        /\ verdict.all_inputs[i].signal = "veto"
        /\ verdict.all_inputs[i].source = "global_risk"

\* C7: while the kill switch is on, every evaluation that builds a
\* DecisionCore verdict (stock_detail, _generate_unified_signal,
\* quick_verdict) has a P0 VETO judgment from the global risk state among
\* the judgments of its verdict.
C7_P0VetoInEveryEvaluation ==
    (call.op \in BuildsVerdict /\ kill_switch_active)
        => HasGlobalRiskVeto(call.ret.verdict)

\* C8: while the kill switch is on, no evaluation returns 'go': not the
\* final action_class of stock_detail or of get_decision, and not the buy
\* decision of _generate_unified_signal.
C8_NoGoWhileKilled ==
    kill_switch_active =>
        /\ call.op \in {"stock_detail", "get_decision"}
              => call.ret.action_class # "go"
        /\ call.op = "_generate_unified_signal" => ~call.ret.is_buy

(***************************************************************************)
(* Claims on concurrent callers of GlobalRiskState                         *)
(***************************************************************************)
AllDone == \A h \in Handlers : pc[h] = "done"

\* the orders in which the handlers' calls can run one after the other
Orders ==
    { o \in [1..Cardinality(Handlers) -> Handlers] :
          \A i, j \in DOMAIN o : o[i] = o[j] => i = j }

RECURSIVE ApplyInOrder(_, _, _)
ApplyInOrder(r, o, i) ==
    IF i > Len(o) THEN r
    ELSE ApplyInOrder(ApplyCall(r, local[o[i]].call), o, i + 1)

SerialOutcomes == { ApplyInOrder(NewRisk, o, 1) : o \in Orders }

\* C9: the mutations are serialized: when concurrent calls of
\* record_trade_result, update_drawdown, activate_kill_switch and
\* deactivate_kill_switch have all returned, the state of GlobalRiskState is
\* the state some sequential order of those calls produces.
C9_Serialized == AllDone => Risk \in SerialOutcomes

\* two concurrent losing trades from consecutive_losses = 0 end with
\* consecutive_losses = 2 and the switch on
TwoLossesCounted ==
    (AllDone /\ \A h \in Handlers : LosingTrade([op |-> local[h].call.op,
                                                 arg |-> local[h].call]))
        => (consecutive_losses = 2 /\ kill_switch_active)

(***************************************************************************)
(* Claims on the factor weights                                            *)
(***************************************************************************)
tolerance == 1000       \* abs(total - 1.0) < 0.001, in parts per million

Abs(x) == IF x < 0 THEN -x ELSE x

SumsToOne(w)   == Abs(SumWeights(w) - PPM) < tolerance
WellFormed(w)  ==
    /\ DOMAIN w = FactorKeys
    /\ \A k \in FactorKeys : w[k] > 0
    /\ SumsToOne(w)

\* C10: BASE_WEIGHTS sums to 1.0; for each regime (bull, bear, shock, and a
\* regime without adjustments) the weights get_adjusted_weights returns have
\* exactly the six keys of BASE_WEIGHTS, are all positive and sum to 1.0;
\* BASE_WEIGHTS is the same after any number of calls.
C10_WeightsNormalised ==
    /\ SumWeights(BASE_WEIGHTS) = 1000
    /\ BASE_WEIGHTS = BaseWeights
    /\ \A g \in MarketRegime \cup {"unknown"} :
           WellFormed(GetAdjustedWeights(BASE_WEIGHTS, g).weights)
    /\ call.op = "get_adjusted_weights" => WellFormed(call.ret)

\* get_adjusted_weights has just returned the weights of the bull regime:
\* trend is raised above its base share, position lowered below it
C10_Witness ==
    /\ call.op = "get_adjusted_weights"
    /\ CURRENT_REGIME = "bull"
    /\ call.ret["trend"] > 180 * 1000
    /\ call.ret["position"] < 100 * 1000

(***************************************************************************)
(* Claims on factor fusion                                                 *)
(***************************************************************************)
V9Call      == call.op = "calculate_v9_score"
V9Weights   == GetAdjustedWeights(BASE_WEIGHTS, CURRENT_REGIME).weights
NormalPath  == V9Call /\ Len(call.arg.daily) >= min_bars /\ ~Raises(call.arg)

\* C11: the score calculate_v9_score returns is between 1 and 99 (10 and 990
\* tenths) on the normal path, on the insufficient-data path and on the
\* exception path.
C11_ScoreInRange ==
    V9Call => (10 <= call.ret.score /\ call.ret.score <= 990)

\* the corrections have taken the score below 1 and the clamp has raised it
C11_Witness ==
    /\ NormalPath
    /\ UnclampedScore(V9Weights, call.arg) < 100
    /\ call.ret.score = 10

\* the other paths of C11: above 99 before the clamp, fewer than 30 bars,
\* an exception inside the try block
C11_UpperClamp ==
    NormalPath /\ UnclampedScore(V9Weights, call.arg) > 9900 /\ call.ret.score = 990
C11_Insufficient == V9Call /\ Len(call.arg.daily) < min_bars
C11_Exception    == V9Call /\ Len(call.arg.daily) >= min_bars /\ Raises(call.arg)

\* the score before the clamp without the divergence correction
ScoreWithoutDivergence(weights, i) ==
    BaseScore(weights, i) + 100 * i.tech[1]
    + (IF ChipMsg(i) = "high_risk" THEN -chip_penalty ELSE 0)

\* C12: whenever calc_fund_divergence classifies the latest bar as
\* divergence-short (either severity), calculate_v9_score reports that label
\* and the score is the clamp of the score less the divergence penalty;
\* whenever it classifies it as divergence-long (either severity), the bonus
\* is added.
C12_DivergencePenalised ==
    NormalPath =>
        LET i    == call.arg
            base == ScoreWithoutDivergence(V9Weights, i)
        IN /\ Contains("bait", FlowMsg(i)) =>
                  /\ Contains("bait", call.ret.breakdown.flow_msg)
                  /\ call.ret.score = RoundTenth(ClampScore(base - diverge_penalty))
           /\ Contains("pit", FlowMsg(i)) =>
                  /\ Contains("pit", call.ret.breakdown.flow_msg)
                  /\ call.ret.score = RoundTenth(ClampScore(base + diverge_bonus))

\* the chip-risk condition as the claim states it: winner_rate above 90 and
\* the price more than 20% above a known avg_cost
ChipRiskFires(cyq_data, price) ==
    /\ cyq_data # <<>>
    /\ cyq_data.winner_rate > 90
    /\ cyq_data.avg_cost > 0
    /\ 5 * price > 6 * cyq_data.avg_cost

\* the score before the clamp without the chip penalty
ScoreWithoutChip(weights, i) ==
    BaseScore(weights, i) + 100 * i.tech[1]
    + (IF FlowMsg(i) = "bait" THEN -diverge_penalty
       ELSE IF FlowMsg(i) = "pit" THEN diverge_bonus ELSE 0)

\* C13: calc_chip_risk returns the high-risk label exactly when winner_rate
\* > 90 and the price is more than 20% above avg_cost, and the normal label
\* otherwise (chip data missing included); calculate_v9_score subtracts the
\* chip penalty before the clamp exactly in that case.
C13_ChipRisk ==
    /\ call.op = "calc_chip_risk" =>
           (call.ret[2] = "high_risk"
                <=> ChipRiskFires(call.arg.cyq_data, call.arg.price))
    /\ call.op = "calc_chip_risk" => call.ret[2] \in {"high_risk", "normal"}
    /\ NormalPath =>
           LET i     == call.arg
               fires == ChipRiskFires(i.cyq_data, Price(i))
           IN /\ call.ret.breakdown.chip_msg = (IF fires THEN "high_risk" ELSE "normal")
              /\ call.ret.score =
                     RoundTenth(ClampScore(ScoreWithoutChip(V9Weights, i)
                                           - (IF fires THEN chip_penalty ELSE 0)))

\* winner_rate 95, avg_cost 10, price 13: the label is high-risk and the
\* penalty shows in the returned score
C13_Witness ==
    /\ NormalPath
    /\ call.arg.cyq_data = Cyq(TRUE, 95, 1000)
    /\ Price(call.arg) = 1300
    /\ call.ret.breakdown.chip_msg = "high_risk"
    /\ call.ret.score > 10 /\ call.ret.score < 990
    /\ call.ret.score =
           RoundTenth(ScoreWithoutChip(V9Weights, call.arg) - chip_penalty)

\* the rules of analyze_intent in the order the claim gives them
IntentRules(a) ==
    << <<Contains("touch_bottom", a.tech_signal), "iron_bottom">>,
       <<Contains("touch_top", a.tech_signal), "top_pullback">>,
       <<Contains("overbought", a.tech_signal), "top_risk">>,
       <<Contains("oversold", a.tech_signal), "golden_pit">>,
       <<Contains("bait", a.flow_msg), "bait_distribution">>,
       <<Contains("pit", a.flow_msg), "main_pit">>,
       <<Contains("high_risk", a.chip_msg), "high_distribution">>,
       <<Contains("golden_cross", a.tech_signal) /\ a.score > 6500, "trend_acceleration">>,
       <<a.score > 8500, "main_rally">>,
       <<a.score > 7000, "strong_surge">>,
       <<a.score < 3500, "breakdown">>,
       <<5000 < a.score /\ a.score < 7500 /\ -50 < a.pct_chg /\ a.pct_chg < 0, "wash_out">>,
       <<TRUE, "observe">> >>

Matching(rules) == {k \in DOMAIN rules : rules[k][1]}

FirstMatch(rules) ==
    rules[CHOOSE k \in Matching(rules) : \A j \in Matching(rules) : k <= j][2]

IntentCall == call.op \in {"analyze_intent", "StrategyPro.analyze_intent"}

\* C14: analyze_intent (in factor_engine_v9 and in StrategyPro) returns the
\* label of the first rule, in the fixed order, that matches its inputs.
C14_FirstMatchWins == IntentCall => call.ret = FirstMatch(IntentRules(call.arg))

\* a technical extreme, a fund divergence, a chip risk and a high score all
\* match; the technical rule, the earliest, gives the label
C14_Witness ==
    /\ call.op = "analyze_intent"
    /\ Cardinality(Matching(IntentRules(call.arg))) >= 5
    /\ call.arg.tech_signal = "oversold"
    /\ call.ret = "golden_pit"


(***************************************************************************)
(* Claims on idempotence                                                   *)
(***************************************************************************)
\* a verdict without its timestamp
Untimed(v) == [f \in DOMAIN v \ {"timestamp"} |-> v[f]]

\* C15 as stated: make_verdict called twice on the same DecisionCore with no
\* call in between returns verdicts equal in every field of FinalVerdict,
\* and leaves judgments, veto_active and veto_reasons unchanged.
C15_IdenticalVerdicts ==
    [][ (call.op = "make_verdict" /\ call'.op = "make_verdict")
            => (call'.ret = call.ret /\ UNCHANGED dcVars) ]_vars

\* C15 amended: make_verdict leaves judgments, veto_active and veto_reasons
\* unchanged, the verdict it returns is determined by them in every field but
\* the timestamp, and two calls in a row return verdicts that are equal in
\* every field but the timestamp.
C15_IdempotentButTimestamp ==
    [][ call'.op = "make_verdict"
            => /\ UNCHANGED dcVars
               /\ Untimed(call'.ret) = UntimedVerdict(Core)
               /\ call.op = "make_verdict"
                      => Untimed(call'.ret) = Untimed(call.ret) ]_vars

\* make_verdict has returned a vetoed verdict, read at the later clock value,
\* on a DecisionCore that holds judgments and veto reasons
C15_Witness ==
    /\ call.op = "make_verdict"
    /\ call.ret.timestamp = 2
    /\ call.ret.is_vetoed
    /\ judgments # <<>>
    /\ veto_reasons # <<>>


(***************************************************************************)
(* Claims on the win-rate model                                            *)
(***************************************************************************)
\* the fund-flow buckets from strong outflow to strong inflow
FundBuckets ==
    <<"fund_flow_strong_sell", "fund_flow_sell", "fund_flow_neutral",
      "fund_flow_buy", "fund_flow_strong_buy">>

BucketRank(b) == CHOOSE k \in 1..Len(FundBuckets) : FundBuckets[k] = b

WinCall == call.op = "calculate_win_probability" /\ call.arg # <<>>

\* C16: with the other factors fixed, the win probability returned by
\* calculate_win_probability (after the clamp) does not decrease when the
\* fund-flow bucket moves up from strong_sell to strong_buy, and
\* classify_fund_flow moves the bucket up, never down, as main_net_flow grows.
C16_WinRateMonotone ==
    /\ call.op = "classify_fund_flow"
           => \A n \in FlowNets :
                  n >= call.arg => BucketRank(ClassifyFundFlow(n)) >= BucketRank(call.ret)
    /\ WinCall
           => \A k \in 1..Len(FundBuckets) :
                  k >= BucketRank(call.arg[1])
                      => Leq(call.ret[1],
                             CalculateWinProbability(
                                 [call.arg EXCEPT ![1] = FundBuckets[k]])[1])

\* calculate_win_probability has returned, above the floor of the clamp, for
\* the small-outflow bucket with a trend, a technical signal and a market state
C16_Witness ==
    /\ WinCall
    /\ call.arg[1] = "fund_flow_sell"
    /\ Len(call.arg) = 4
    /\ call.ret[1] # prob_floor
    /\ ~Leq(CalculateWinProbability([call.arg EXCEPT ![1] = "fund_flow_buy"])[1],
            call.ret[1])

\* the clamp has acted on the probability of the strong-outflow bucket
C16_Clamped ==
    /\ WinCall
    /\ call.arg[1] = "fund_flow_strong_sell"
    /\ call.ret[1] = prob_floor
    /\ OddsSquared(call.arg, Len(call.arg)) # prob_floor


(***************************************************************************)
(* Claims on the narrative filter                                          *)
(***************************************************************************)
Forbidden(token) == token[1] = "w" /\ token[2] \in SeqToSet(forbidden_words)

FilterCall == call.op = "filter_narrative"

\* C17: with the veto flag set, filter_narrative returns the risk banner
\* followed by the text in which every occurrence of every term of the
\* forbidden list is replaced by its marker and every other word is kept;
\* with the flag not set it returns the text it was given.
C17_NarrativeFiltered ==
    FilterCall =>
        IF veto_active
        THEN /\ Len(call.ret) = Len(call.arg) + 1
             /\ call.ret[1] = <<"banner", warning_prefix>>
             /\ \A i \in DOMAIN call.arg :
                    call.ret[i + 1] = IF Forbidden(call.arg[i])
                                      THEN <<"filtered", call.arg[i][2]>>
                                      ELSE call.arg[i]
             /\ \A i \in DOMAIN call.ret : ~Forbidden(call.ret[i])
        ELSE call.ret = call.arg

\* filter_narrative has filtered, under a veto, a text that holds one
\* forbidden term twice, other forbidden terms and words outside the list
C17_Witness ==
    /\ FilterCall
    /\ veto_active
    /\ \E i, j \in DOMAIN call.arg :
           i < j /\ call.arg[i] = call.arg[j] /\ Forbidden(call.arg[i])
    /\ \E i \in DOMAIN call.arg : ~Forbidden(call.arg[i])
    /\ Cardinality({t \in SeqToSet(call.arg) : Forbidden(t)}) >= 3

\* filter_narrative has returned a text unchanged, no veto being active
C17_Unfiltered ==
    /\ FilterCall
    /\ ~veto_active
    /\ \E i \in DOMAIN call.arg : Forbidden(call.arg[i])


(***************************************************************************)
(* Claims on configuration loading                                         *)
(***************************************************************************)
\* C18: a weight configuration that does not sum to 1.0 is rejected when the
\* configuration is loaded: a ConfigManager that has been constructed, and
\* the scoring weights read from it, never hold weights whose sum is not 1.0.
C18_RejectedAtLoad ==
    /\ call.op = "ConfigManager"
           => SumValues(call.ret.config.scoring_weights,
                        DOMAIN call.ret.config.scoring_weights) = 1000
    /\ call.op = "get_scoring_weights"
           => SumValues(call.ret, DOMAIN call.ret) = 1000


(***************************************************************************)
(* Claims on the factor functions                                          *)
(***************************************************************************)
\* the shortest window each factor function scores
MinWindow ==
    [factor_ma_alignment |-> 60, factor_momentum |-> 20, factor_position |-> 60,
     factor_volume_ratio |-> 10, factor_volume_pattern |-> 5]

FactorCall ==
    call.op \in DOMAIN MinWindow
                \cup {"factor_chip_profit", "factor_main_flow", "factor_market_sync"}

\* C19: no factor function raises, whatever the bars or flows, zero closes
\* and zero volumes included; each returns a score between 0 and 100, and
\* the neutral score 50 with the insufficient-data label when its window is
\* shorter than its minimum.
C19_FactorsNeverRaise ==
    FactorCall =>
        /\ ~call.ret.raised
        /\ 0 <= call.ret.score /\ call.ret.score <= 10000
        /\ (call.op \in DOMAIN MinWindow /\ Len(call.arg) < MinWindow[call.op])
               => (call.ret.score = 5000 /\ call.ret.label = "insufficient_data")


(***************************************************************************)
(* Claims on the realtime fund analysis                                    *)
(***************************************************************************)
\* a source that delivered a dict with valid: True
Delivered(src) == src.outcome = "valid"

\* C20: whichever of the three sources fail, time out or return
\* valid: false, get_realtime_fund_analysis returns a result and does not
\* raise; the result is valid exactly when some source is valid, and then
\* confidence is 40 for eastmoney + 30 for tencent + 30 for sina over the
\* valid sources and sources lists the valid sources and no others.
C20_GracefulDegradation ==
    call.op = "get_realtime_fund_analysis" =>
        LET srcs == call.arg
            ret  == call.ret
        IN /\ ~ret.raised
           /\ ret.valid <=> \E k \in DOMAIN srcs : Delivered(srcs[k])
           /\ ret.valid =>
                  /\ ret.confidence =
                         (IF Delivered(srcs.eastmoney) THEN 40 ELSE 0)
                         + (IF Delivered(srcs.tencent) THEN 30 ELSE 0)
                         + (IF Delivered(srcs.sina) THEN 30 ELSE 0)
                  /\ SeqToSet(ret.sources) = {k \in DOMAIN srcs : Delivered(srcs[k])}
                  /\ Len(ret.sources) = Cardinality(SeqToSet(ret.sources))


(***************************************************************************)
(* Claims on the regime                                                    *)
(***************************************************************************)
\* the member of the MarketRegime enum a string names
RegimeNamed(name) ==
    CASE name \in {"bull", "BULL"}   -> "bull"
      [] name \in {"bear", "BEAR"}   -> "bear"
      [] name \in {"shock", "SHOCK"} -> "shock"
      [] OTHER                       -> "none"

\* C21: after set_market_regime(r), for r any value of the regime enum and
\* in particular any value calc_regime returns, the current regime is r, so
\* get_current_regime reports r and get_adjusted_weights applies r's
\* multipliers; calls other than set_market_regime leave the regime alone.
C21_RegimeSettable ==
    /\ (call.op = "set_market_regime" /\ RegimeNamed(call.arg) # "none")
           => CURRENT_REGIME = RegimeNamed(call.arg)
    /\ call.op = "get_current_regime" => call.ret = CURRENT_REGIME
    /\ call.op = "get_adjusted_weights"
           => call.ret = Normalise(ApplyAdjustments(BaseWeights, CURRENT_REGIME),
                                   BaseWeights)


(***************************************************************************)
(* Claims on the life of an evaluation and of its verdict                  *)
(***************************************************************************)
\* C22: verdict-rendered is terminal.  Once make_verdict has returned, an
\* add_judgment or check_veto_conditions call that follows it does not
\* change judgments, veto_active or veto_reasons; only reset() does.
C22_RenderedIsTerminal ==
    [][ (call.op = "make_verdict"
            /\ call'.op \in {"add_judgment", "check_veto_conditions"})
            => UNCHANGED dcVars ]_vars

\* C23: a FinalVerdict a caller keeps has, after any later add_judgment,
\* check_veto_conditions, make_verdict and reset calls on the DecisionCore,
\* every field as it was when make_verdict returned it.
C23_VerdictImmutable ==
    held # NoVerdict => held.verdict = held.returned

\* C24: when veto_active is true as make_verdict is called, whether the
\* veto came from a judgment or from check_veto_conditions alone, the
\* verdict has is_vetoed = True and carries the recorded veto reasons.
C24_ActiveVetoIsRendered ==
    (call.op = "make_verdict" /\ veto_active)
        => (call.ret.is_vetoed /\ call.ret.veto_reasons = veto_reasons)


(***************************************************************************)
(* Claims on the backtest signal                                           *)
(***************************************************************************)
\* the inputs of _generate_unified_signal, on both sides of each threshold
BacktestFlows  == {-2500, -2000, 0, 2000, 2500, 1000000}
BacktestScores == {0, 35, 36, 50, 69, 70, 100}

\* C25: _generate_unified_signal is satisfiable: for some score and some
\* main_net_flow the verdict it builds has action_class 'go' and is_buy is
\* returned True, so a backtest can produce buy signals.
C25_BuySignalSatisfiable ==
    \E f \in BacktestFlows, x \in BacktestScores :
        LET ret == GenerateUnifiedSignal(Risk, x, f)
        IN ret.verdict.action_class = "go" /\ ret.is_buy


(***************************************************************************)
(* Claims on deactivation                                                  *)
(***************************************************************************)
\* C26: deactivate_kill_switch changes only kill_switch_active, kill_reason
\* and kill_timestamp: consecutive_losses and account_drawdown (and all
\* state outside GlobalRiskState) keep their values.  Hence while the
\* counter still stands at two or more losses with the switch off, the
\* next losing record_trade_result turns the switch on again.
C26_DeactivateFrame ==
    /\ [][ call'.op = "deactivate_kill_switch"
              => /\ ~kill_switch_active'
                 /\ kill_reason' = <<"", 0>>
                 /\ kill_timestamp' = "None"
                 /\ UNCHANGED <<consecutive_losses, account_drawdown,
                                dcVars, wVars>> ]_vars
    /\ [][ (/\ ~kill_switch_active
            /\ consecutive_losses >= loss_trigger
            /\ LosingTrade(call'))
              => (/\ kill_switch_active'
                  /\ kill_reason' = <<"consecutive_losses", consecutive_losses + 1>>) ]_vars

\* the switch has just been lifted after two consecutive losses and a
\* drawdown: both counters still stand
C26_Witness ==
    /\ call.op = "deactivate_kill_switch"
    /\ ~kill_switch_active
    /\ consecutive_losses = 2
    /\ account_drawdown = <<10, 100>>


(***************************************************************************)
(* Claims on the regime of the win rate                                    *)
(***************************************************************************)
\* C27: the regime stock_detail passes to quick_win_rate always forms a key
\* of FACTOR_WIN_RATES (market_bull, market_shock or market_bear), so the
\* regime bucket takes part in the win-probability update and is never
\* treated as the neutral 0.5 prior for want of a key.
C27_RegimeFormsKey ==
    call.op = "stock_detail_win_rate"
        => /\ call.ret.factors[2] \in {"market_bull", "market_shock", "market_bear"}
           /\ call.ret.factors[2] \in DOMAIN FACTOR_WIN_RATES


(***************************************************************************)
(* Claims on the shape of a verdict                                        *)
(***************************************************************************)
\* how many times x occurs in the sequence q
CountIn(q, x) == Cardinality({i \in DOMAIN q : q[i] = x})

\* C28: every verdict make_verdict returns, after any add_judgment and
\* check_veto_conditions calls with confidences in [0,1], has action_class
\* go, watch or run; is 'run' only if vetoed and 'go' only if not vetoed;
\* has veto_reasons non-empty exactly when is_vetoed; has its confidence
\* in [0,1]; and lists in all_inputs exactly the judgments added, in
\* non-decreasing priority order.
C28_VerdictInvariants ==
    Rendered =>
        LET v == call.ret
        IN /\ v.action_class \in {"go", "watch", "run"}
           /\ v.action_class = "run" => v.is_vetoed
           /\ v.action_class = "go" => ~v.is_vetoed
           /\ (v.veto_reasons # <<>>) <=> v.is_vetoed
           /\ v.confidence >= 0 /\ v.confidence <= ScoreOne
           /\ Len(v.all_inputs) = Len(judgments)
           /\ \A i \in DOMAIN judgments :
                  CountIn(v.all_inputs, judgments[i]) = CountIn(judgments, judgments[i])
           /\ \A i, k \in DOMAIN v.all_inputs :
                  i < k => v.all_inputs[i].priority <= v.all_inputs[k].priority

\* a STRONG_SELL at P0 was added after a BUY at P3: the verdict is the
\* vetoed 'run' and lists the P0 judgment first
C28_Witness ==
    /\ Rendered
    /\ Len(judgments) = 2
    /\ judgments[1].priority = P3_TREND_CHIP /\ judgments[1].signal = "buy"
    /\ judgments[2].priority = P0_ACCOUNT_RISK /\ judgments[2].signal = "strong_sell"
    /\ call.ret.action_class = "run"
    /\ call.ret.veto_reasons # <<>>
    /\ call.ret.all_inputs = <<judgments[2], judgments[1]>>


(***************************************************************************)
(* Claims on the real-time money score                                     *)
(***************************************************************************)
\* C29: a real-time fund result marked valid carries a main_net that came
\* from a valid source: when eastmoney, the only provider of main_net, is
\* not valid, calculate_v9_score does not score the placeholder main_net = 0
\* as real-time data; the money score is factor_main_flow's and the result
\* is the one computed without real-time data.
C29_PlaceholderNotScored ==
    (call.op = "stock_detail_score" /\ ~SourceValid(call.arg.srcs.eastmoney))
        => /\ call.ret.money = FactorMainFlow(call.arg.i.money_flow)
           /\ call.ret.v9 =
                  CalculateV9Score(
                      GetAdjustedWeights(BASE_WEIGHTS, CURRENT_REGIME).weights,
                      [call.arg.i EXCEPT !.realtime_fund = <<>>])


(***************************************************************************)
(* Claims on reading the kill switch beside its writers                    *)
(***************************************************************************)
\* the reasons an activation gives the switch
ActivationReasons == {"manual", "consecutive_losses", "account_drawdown"}

\* C30: is_trading_allowed returns a consistent snapshot under concurrent
\* mutation: whenever it returns (False, reason), the reason is the
\* kill_reason of an activation, one that was in effect together with
\* kill_switch_active = True; it is never the empty reason.
C30_ConsistentSnapshot ==
    (call.op = "is_trading_allowed" /\ ~call.ret[1])
        => (call.ret[2][2] \in ActivationReasons /\ call.ret[2][2] # "")

====
